---------------------------- MODULE Spec2Model ----------------------------
(***************************************************************************)
(* A model of the statement parser of src/bill_parser.py: the constructor  *)
(* of BillParser (page classification, statement date, table extraction,   *)
(* the row state machine of each vendor) and get_csv_text (the row         *)
(* post-processor and the export).                                         *)
(*                                                                         *)
(* Texts are strings, handled character by character with Len, SubSeq and  *)
(* \o.  Three characters of the source are outside ASCII and are written   *)
(* here with ASCII characters that occur nowhere else in the inputs:       *)
(*   EnDash  "~"  for U+2013 (the "uncategorized" placeholder of vendor A) *)
(*   Nbsp    "_"  for U+00A0 (before "CR" in vendor C's credit suffix)     *)
(*   YAcute  "@"  for U+00DD (the description prefix of vendor D)          *)
(***************************************************************************)
EXTENDS Integers, Sequences, FiniteSets, TLC

EnDash == "~"
Nbsp == "_"
YAcute == "@"

(***************************************************************************)
(* Python str operations.                                                  *)
(***************************************************************************)
Min(S) == CHOOSE x \in S : \A y \in S : x <= y
Max(S) == CHOOSE x \in S : \A y \in S : x >= y

CharAt(s, i) == SubSeq(s, i, i)
From(s, i) == SubSeq(s, i, Len(s))

\* s[i-1:].startswith(p), with i a 1-based position of s
StartsWithAt(s, p, i) ==
    /\ i >= 1
    /\ i + Len(p) - 1 <= Len(s)
    /\ SubSeq(s, i, i + Len(p) - 1) = p

StartsWith(s, p) == StartsWithAt(s, p, 1)
EndsWith(s, p) == Len(p) <= Len(s) /\ From(s, Len(s) - Len(p) + 1) = p

\* the positions at which p occurs in s
Occurrences(s, p) == {i \in 1..Len(s) : StartsWithAt(s, p, i)}

\* p in s
Contains(s, p) == \E i \in 1..Len(s) : StartsWithAt(s, p, i)

\* s.find(p, from): the first position >= from at which p occurs, 0 if none
Find(s, p, from) ==
    IF \E i \in Max({from, 1})..Len(s) : StartsWithAt(s, p, i)
    THEN CHOOSE i \in Max({from, 1})..Len(s) :
            /\ StartsWithAt(s, p, i)
            /\ \A j \in Max({from, 1})..(i - 1) : ~StartsWithAt(s, p, j)
    ELSE 0

\* s.replace(old, new): every occurrence, left to right, not overlapping
RECURSIVE Replace(_, _, _)
Replace(s, old, new) ==
    IF Len(s) < Len(old) THEN s
    ELSE IF StartsWith(s, old)
         THEN new \o Replace(From(s, Len(old) + 1), old, new)
         ELSE CharAt(s, 1) \o Replace(From(s, 2), old, new)

\* str.isspace() on one character: U+00A0 is whitespace for Python
IsSpace(c) == c \in {" ", "\t", "\n", Nbsp}
IsDigit(c) == c \in {"0", "1", "2", "3", "4", "5", "6", "7", "8", "9"}

RECURSIVE LStrip(_)
LStrip(s) == IF Len(s) > 0 /\ IsSpace(CharAt(s, 1)) THEN LStrip(From(s, 2)) ELSE s
RECURSIVE RStrip(_)
RStrip(s) ==
    IF Len(s) > 0 /\ IsSpace(CharAt(s, Len(s)))
    THEN RStrip(SubSeq(s, 1, Len(s) - 1)) ELSE s

\* s.strip()
Strip(s) == LStrip(RStrip(s))

\* s.split(): the maximal runs of non-whitespace characters
RECURSIVE SplitFrom(_, _)
SplitFrom(s, word) ==
    IF Len(s) = 0 THEN (IF word = "" THEN <<>> ELSE <<word>>)
    ELSE IF IsSpace(CharAt(s, 1))
         THEN (IF word = "" THEN <<>> ELSE <<word>>) \o SplitFrom(From(s, 2), "")
         ELSE SplitFrom(From(s, 2), word \o CharAt(s, 1))
Split(s) == SplitFrom(s, "")

\* sep.join(parts)
RECURSIVE Join(_, _)
Join(sep, parts) ==
    IF Len(parts) = 0 THEN ""
    ELSE IF Len(parts) = 1 THEN parts[1]
    ELSE LET h == Len(parts) \div 2
         IN Join(sep, SubSeq(parts, 1, h)) \o sep \o Join(sep, SubSeq(parts, h + 1, Len(parts)))

\* text.splitlines(): the only line boundary of the inputs is "\n"; a text
\* that does not end with one has a last line that runs to its end
RECURSIVE LinesFrom(_, _)
\* the line s[i .. nl - 1] and the lines behind the newline at nl
LineTo(s, i, nl) == <<SubSeq(s, i, nl - 1)>> \o LinesFrom(s, nl + 1)
LinesFrom(s, i) ==
    IF i > Len(s) THEN <<>>
    ELSE LineTo(s, i, IF Find(s, "\n", i) = 0 THEN Len(s) + 1 ELSE Find(s, "\n", i))
splitlines(s) == LinesFrom(s, 1)

\* str.lower() on one character
UpperLetters == "ABCDEFGHIJKLMNOPQRSTUVWXYZ"
LowerLetters == "abcdefghijklmnopqrstuvwxyz"
UpperSet == {CharAt(UpperLetters, i) : i \in 1..Len(UpperLetters)}
LowerChar(c) ==
    IF c \in UpperSet
    THEN CharAt(LowerLetters, CHOOSE i \in 1..Len(UpperLetters) : CharAt(UpperLetters, i) = c)
    ELSE c
RECURSIVE Lower(_)
Lower(s) == IF Len(s) = 0 THEN "" ELSE LowerChar(CharAt(s, 1)) \o Lower(From(s, 2))

\* digits to a number
RECURSIVE ToNat(_)
ToNat(s) ==
    IF Len(s) = 0 THEN 0
    ELSE 10 * ToNat(SubSeq(s, 1, Len(s) - 1))
         + (Find("0123456789", CharAt(s, Len(s)), 1) - 1)

\* str(n) for n >= 0, and n written with at least w digits
RECURSIVE ToStr(_)
ToStr(n) ==
    IF n < 10 THEN CharAt("0123456789", n + 1)
    ELSE ToStr(n \div 10) \o CharAt("0123456789", (n % 10) + 1)
RECURSIVE Pad(_, _)
Pad(s, w) == IF Len(s) >= w THEN s ELSE Pad("0" \o s, w)


(***************************************************************************)
(* datetime.strptime / pandas.to_datetime(format=...).  A format is the    *)
(* sequence of its directives and literal characters.  As in the library,  *)
(* month names match without regard to case, a blank of the format matches *)
(* one or more whitespace characters, %d takes two digits when it can, the *)
(* whole string must be consumed, and the day must exist in the calendar.  *)
(***************************************************************************)
MonthAbbr ==
    <<"jan", "feb", "mar", "apr", "may", "jun",
      "jul", "aug", "sep", "oct", "nov", "dec">>
MonthFull ==
    <<"january", "february", "march", "april", "may", "june",
      "july", "august", "september", "october", "november", "december">>

IsLeap(y) == (y % 4 = 0 /\ y % 100 /= 0) \/ y % 400 = 0
DaysIn(m, y) ==
    IF m = 2 THEN (IF IsLeap(y) THEN 29 ELSE 28)
    ELSE IF m \in {4, 6, 9, 11} THEN 30 ELSE 31

NoDate == [ok |-> FALSE, year |-> 0, month |-> 0, day |-> 0]

\* the length of the prefix of s that %d takes: 3[0-1]|[1-2]\d|0[1-9]|[1-9]| [1-9]
DayLenOf(a, b) ==
    IF \/ (a = "3" /\ b \in {"0", "1"})
       \/ (a \in {"1", "2"} /\ IsDigit(b))
       \/ (a = "0" /\ IsDigit(b) /\ b /= "0")
    THEN 2
    ELSE IF IsDigit(a) /\ a /= "0" THEN 1
    ELSE IF a = " " /\ IsDigit(b) /\ b /= "0" THEN 2
    ELSE 0
DayLen(s) == DayLenOf(CharAt(s, 1), CharAt(s, 2))

\* the month whose name (from names) starts s, 0 if none
MonthOf(M) == IF M = {} THEN 0 ELSE CHOOSE m \in M : TRUE
MonthAt(s, names) == MonthOf({m \in 1..12 : Lower(SubSeq(s, 1, Len(names[m]))) = names[m]})

\* what one directive or literal f of a format takes from the head of s:
\* [n, field, value], n the number of characters taken, -1 when f does not match
NoTake == [n |-> -1, field |-> "", value |-> 0]
TakeMonth(m, n) == IF m = 0 THEN NoTake ELSE [n |-> n, field |-> "month", value |-> m]
TakeFull(m) == TakeMonth(m, IF m = 0 THEN 0 ELSE Len(MonthFull[m]))
TakeDay(s, n) ==
    IF n = 0 THEN NoTake ELSE [n |-> n, field |-> "day", value |-> ToNat(Strip(SubSeq(s, 1, n)))]
Take(s, f) ==
    CASE f = "%b" -> TakeMonth(MonthAt(s, MonthAbbr), 3)
      [] f = "%B" -> TakeFull(MonthAt(s, MonthFull))
      [] f = "%d" -> TakeDay(s, DayLen(s))
      [] f = "%Y" ->
           IF Len(s) >= 4 /\ \A i \in 1..4 : IsDigit(CharAt(s, i))
           THEN [n |-> 4, field |-> "year", value |-> ToNat(SubSeq(s, 1, 4))]
           ELSE NoTake
      [] f = " " ->
           IF Len(s) > 0 /\ IsSpace(CharAt(s, 1))
           THEN [n |-> Len(s) - Len(LStrip(s)), field |-> "", value |-> 0]
           ELSE NoTake
      [] OTHER ->
           IF Len(s) > 0 /\ LowerChar(CharAt(s, 1)) = LowerChar(f)
           THEN [n |-> 1, field |-> "", value |-> 0]
           ELSE NoTake

Put(acc, t) ==
    CASE t.field = "year" -> [acc EXCEPT !.year = t.value]
      [] t.field = "month" -> [acc EXCEPT !.month = t.value]
      [] t.field = "day" -> [acc EXCEPT !.day = t.value]
      [] OTHER -> acc

RECURSIVE MatchFormat(_, _, _)
MatchRest(t, s, rest, acc) ==
    IF t.n < 0 THEN NoDate ELSE MatchFormat(From(s, t.n + 1), rest, Put(acc, t))
MatchFormat(s, fmt, acc) ==
    IF fmt = <<>>
    THEN (IF s = "" THEN [acc EXCEPT !.ok = TRUE] ELSE NoDate)
    ELSE MatchRest(Take(s, Head(fmt)), s, Tail(fmt), acc)

\* the parsed date, ok = FALSE where the library raises ValueError
ValidDate(r) ==
    IF r.ok /\ r.year >= 1 /\ r.day <= DaysIn(r.month, r.year) THEN r ELSE NoDate
strptime(s, fmt) == ValidDate(MatchFormat(s, fmt, NoDate))

\* strftime("%Y-%m-%d"), also how a datetime column is written by to_csv
IsoDate(d) ==
    Pad(ToStr(d.year), 4) \o "-" \o Pad(ToStr(d.month), 2) \o "-" \o Pad(ToStr(d.day), 2)

(***************************************************************************)
(* The vendors' class attributes.                                          *)
(***************************************************************************)
Vendors == {"A", "B", "C", "D"}

PAGE_TYPE_SUMMARY == "summary"
PAGE_TYPE_TRANSACTIONS == "transactions"
PAGE_TYPE_OTHER == "other"
END_OF_ROW == "end_of_row"
END_OF_ROW_TOKEN == "EOR"

\* the items of the dict, in insertion order: <<regex, page type>>
PAGE_TYPE_REGEXES(v) ==
    CASE v = "A" -> << <<"due by", PAGE_TYPE_SUMMARY>>,
                       <<"Transaction\nDate", PAGE_TYPE_TRANSACTIONS>> >>
      [] v = "B" -> << <<"Balance from your last statement", PAGE_TYPE_SUMMARY>>,
                       <<"TRANSACTION DESCRIPTION", PAGE_TYPE_TRANSACTIONS>> >>
      [] v = "C" -> << <<"Summary of your account", PAGE_TYPE_SUMMARY>>,
                       <<"Transactions since your last statement", PAGE_TYPE_TRANSACTIONS>> >>
      [] v = "D" -> << <<"Your account at a glance", PAGE_TYPE_SUMMARY>>,
                       <<"Transactions from", PAGE_TYPE_TRANSACTIONS>> >>

STATEMENT_DATE_FORMAT(v) ==
    CASE v = "A" -> <<"%b", " ", "%d", ",", " ", "%Y">>
      [] v = "B" -> <<"%B", " ", "%d", ",", " ", "%Y">>
      [] v = "C" -> <<"%b", ".", " ", "%d", ",", " ", "%Y">>
      [] v = "D" -> <<"%B", " ", "%d", ",", " ", "%Y">>

(***************************************************************************)
(* _classify_pages.  The patterns hold no regex operator, so re.search is  *)
(* a substring test.                                                       *)
(***************************************************************************)
re_search(regex, pagetext) == Contains(pagetext, regex)

\* the inner loop without its break: the last rule that matches
RECURSIVE LastMatchingType(_, _)
LastMatchingType(rules, pagetext) ==
    IF rules = <<>> THEN PAGE_TYPE_OTHER
    ELSE IF Contains(pagetext, rules[Len(rules)][1]) THEN rules[Len(rules)][2]
    ELSE LastMatchingType(SubSeq(rules, 1, Len(rules) - 1), pagetext)

\* the inner loop: the first rule that matches, with its break
RECURSIVE FirstMatchingType(_, _)
FirstMatchingType(rules, pagetext) ==
    IF rules = <<>> THEN PAGE_TYPE_OTHER
    ELSE IF re_search(rules[1][1], pagetext) THEN rules[1][2]
    ELSE FirstMatchingType(Tail(rules), pagetext)

\* a classifier without the label other: a page that matches no rule goes
\* with the transactions pages
ClassificationWithoutOther(v, pagetext) ==
    IF FirstMatchingType(PAGE_TYPE_REGEXES(v), pagetext) = PAGE_TYPE_OTHER
    THEN PAGE_TYPE_TRANSACTIONS
    ELSE FirstMatchingType(PAGE_TYPE_REGEXES(v), pagetext)

classification(v, pagetext) == FirstMatchingType(PAGE_TYPE_REGEXES(v), pagetext)

\* classified_pagetexts[classification].append(pagetext) on a defaultdict(list)
DictAppend(d, k, x) ==
    IF k \in DOMAIN d THEN [d EXCEPT ![k] = Append(@, x)] ELSE d @@ (k :> <<x>>)

RECURSIVE ClassifyFrom(_, _, _)
ClassifyFrom(v, texts, d) ==
    IF texts = <<>> THEN d
    ELSE ClassifyFrom(v, Tail(texts), DictAppend(d, classification(v, Head(texts)), Head(texts)))

EmptyDict == [k \in {} |-> <<>>]
classify_pages(v, texts) == ClassifyFrom(v, texts, EmptyDict)

(***************************************************************************)
(* _extract_statement_date: re.findall(STATEMENT_DATE_REGEX, text)[0] and  *)
(* strptime.  "." does not match a newline in these patterns, so each      *)
(* pattern is decided line by line; the greedy prefix before " to " leaves *)
(* the last " to " of the line, the greedy group before a blank ends at    *)
(* the last blank.  The group of each pattern is written <...> below.      *)
(***************************************************************************)
\* the position of the newline that ends the line holding position i,
\* Len(text) + 1 when the text ends first
EndOr(k, n) == IF k = 0 THEN n + 1 ELSE k
LineEnd(text, i) == EndOr(Find(text, "\n", i), Len(text))
AfterMax(B) == IF B = {} THEN 1 ELSE Max(B) + 1
LineStart(text, i) == AfterMax({k \in 1..(i - 1) : CharAt(text, k) = "\n"})
RestOfLine(text, i) == SubSeq(text, i, LineEnd(text, i) - 1)
AfterLast(s, p) == From(s, Max(Occurrences(s, p)) + Len(p))

\* the group, given the line that holds it
GroupAfterTo(line) == AfterLast(line, " to ")
GroupToLastBlank(rest) == SubSeq(rest, 1, Max(Occurrences(rest, " ")) - 1)

\* <<position, group 1>> of every match of STATEMENT_DATE_REGEX
StatementDateMatches(v, text) ==
    CASE v = "A" ->  \* ".* to <.*>\nStatement period"
           {<<q, GroupAfterTo(SubSeq(text, LineStart(text, q), q - 1))>> :
              q \in {q \in Occurrences(text, "\nStatement period") :
                       Contains(SubSeq(text, LineStart(text, q), q - 1), " to ")}}
      [] v = "B" ->  \* "Statement date: <.*> "
           {<<p, GroupToLastBlank(RestOfLine(text, p + 16))>> :
              p \in {p \in Occurrences(text, "Statement date: ") :
                       Contains(RestOfLine(text, p + 16), " ")}}
      [] v = "C" ->  \* "Statement date\n<.*>\n"
           {<<p, RestOfLine(text, p + 15)>> :
              p \in {p \in Occurrences(text, "Statement date\n") :
                       LineEnd(text, p + 15) <= Len(text)}}
      [] v = "D" ->  \* ".* statement period\n.* to <.*>"
           {<<q, GroupAfterTo(RestOfLine(text, q + 18))>> :
              q \in {q \in Occurrences(text, " statement period\n") :
                       Contains(RestOfLine(text, q + 18), " to ")}}

\* re.findall(...)[0]: the group of the leftmost match
FirstGroup(found) == (CHOOSE m \in found : \A n \in found : m[1] <= n[1])[2]

\* datetime.strptime(statement_date_str, self.STATEMENT_DATE_FORMAT)
DateOrError(d) ==
    IF d.ok THEN [err |-> "", date |-> d] ELSE [err |-> "ValueError", date |-> NoDate]

FromMatches(v, found) ==
    IF found = {}
    THEN [err |-> "IndexError", date |-> NoDate]
    ELSE DateOrError(strptime(FirstGroup(found), STATEMENT_DATE_FORMAT(v)))

\* err names the exception the constructor raises, "" when there is none
extract_statement_date(v, summary_pagetext) ==
    FromMatches(v, StatementDateMatches(v, summary_pagetext))

(***************************************************************************)
(* _tabletext_extractor: re.findall of the vendor's pattern, which returns *)
(* the text of group 1 of every match, left to right, not overlapping.     *)
(*   A  <Reward\nEarned\n ANY* \n>New Balance ~ .*\n          greedy       *)
(*   B  <TRANSACTION\nDATE\n ANY*? \.\d\d\n> ?Total            lazy         *)
(*   C  <TRANS\nDATE\n ANY*> then "(continued on next page)"               *)
(*      or "Subtotal for "                                    greedy       *)
(*   D  <Trans\ndate\n ANY*? \.\d\d\n>Total                    lazy         *)
(* ANY matches every character, the newline included.                      *)
(***************************************************************************)
TABLE_START(v) ==
    CASE v = "A" -> "Reward\nEarned\n"
      [] v = "B" -> "TRANSACTION\nDATE\n"
      [] v = "C" -> "TRANS\nDATE\n"
      [] v = "D" -> "Trans\ndate\n"

NEW_BALANCE == "New Balance " \o EnDash \o " "
CONTINUED == "(continued on next page)"
SUBTOTAL == "Subtotal for "

\* text[e-3 .. e] is \.\d\d\n
AmountLineEndsAt(text, e) ==
    /\ e >= 4
    /\ CharAt(text, e) = "\n"
    /\ CharAt(text, e - 3) = "."
    /\ IsDigit(CharAt(text, e - 2))
    /\ IsDigit(CharAt(text, e - 1))

\* the positions e at which group 1 of a match that starts at s can end
GroupEndsFrom(v, text, first) ==
       CASE v = "A" ->
              {e \in first..Len(text) :
                 /\ CharAt(text, e) = "\n"
                 /\ StartsWithAt(text, NEW_BALANCE, e + 1)
                 /\ LineEnd(text, e + 1 + Len(NEW_BALANCE)) <= Len(text)}
         [] v = "B" ->
              {e \in (first + 3)..Len(text) :
                 /\ AmountLineEndsAt(text, e)
                 /\ (StartsWithAt(text, "Total", e + 1) \/ StartsWithAt(text, " Total", e + 1))}
         [] v = "C" ->
              {e \in (first - 1)..Len(text) :
                 StartsWithAt(text, CONTINUED, e + 1) \/ StartsWithAt(text, SUBTOTAL, e + 1)}
         [] v = "D" ->
              {e \in (first + 3)..Len(text) :
                 AmountLineEndsAt(text, e) /\ StartsWithAt(text, "Total", e + 1)}
GroupEnds(v, text, s) == GroupEndsFrom(v, text, s + Len(TABLE_START(v)))

\* the last position of the whole match whose group 1 ends at e
MatchEnd(v, text, e) ==
    CASE v = "A" -> LineEnd(text, e + 1 + Len(NEW_BALANCE))
      [] v = "B" -> IF StartsWithAt(text, "Total", e + 1) THEN e + 5 ELSE e + 6
      [] v = "C" -> IF StartsWithAt(text, CONTINUED, e + 1)
                    THEN e + Len(CONTINUED) ELSE e + Len(SUBTOTAL)
      [] v = "D" -> e + 5

\* where group 1 ends: greedy for A and C, lazy for B and D
GroupEnd(v, text, s) ==
    IF v \in {"A", "C"} THEN Max(GroupEnds(v, text, s)) ELSE Min(GroupEnds(v, text, s))

\* "ANY*" takes the longest interior that still matches, "ANY*?" the shortest
RECURSIVE FindAllFrom(_, _, _)
\* the match whose group 1 is text[s..e], and the matches after it
MatchAt(v, text, s, e) ==
    <<SubSeq(text, s, e)>> \o FindAllFrom(v, text, MatchEnd(v, text, e) + 1)
\* the matches from the occurrence s of the start marker on (s = 0: there is none)
MatchesAt(v, text, s) ==
    IF s = 0 THEN <<>>
    ELSE IF GroupEnds(v, text, s) = {} THEN FindAllFrom(v, text, s + 1)
    ELSE MatchAt(v, text, s, GroupEnd(v, text, s))
FindAllFrom(v, text, pos) == MatchesAt(v, text, Find(text, TABLE_START(v), pos))

tabletext_extractor(v, pagetext) == FindAllFrom(v, pagetext, 1)

(***************************************************************************)
(* _parse_transaction_table.  The locals of one call are the record        *)
(*   [lines, state, buffer, transactions, mode, err]                       *)
(* buffer and every row are dicts: functions from the keys present to      *)
(* strings.  err names the exception the call raises, "" while it runs.    *)
(***************************************************************************)
initial_state(v) == IF v = "A" THEN "reward_earned" ELSE "transaction_date"

\* lines[n:]
Drop(lines, n) == SubSeq(lines, n + 1, Len(lines))

\* buffer[k] = x
DictSet(d, k, x) == IF k \in DOMAIN d THEN [d EXCEPT ![k] = x] ELSE d @@ (k :> x)

\* a header of six lines for every vendor
SixHeaderLines(v) == 6

\* the fixed header lines of the vendor (lines[9:], lines[6:], lines[5:])
HeaderLines(v) == CASE v = "A" -> 9 [] v = "B" -> 6 [] v = "C" -> 6 [] v = "D" -> 5

\* re.match of the signature of the extra header on the first remaining line
ExtraHeader(v, line) ==
    CASE v = "A" -> line = "Interest rates"
      [] v = "B" -> StartsWith(line, "Purchases - Card #")
      [] v = "C" -> StartsWith(line, "Card number: XXXX XXXX XXXX")
      [] v = "D" -> line = "Spend Categories"

\* the locals before the header lines are dropped
Locals(v, lines) ==
    [lines |-> lines, state |-> initial_state(v), buffer |-> EmptyDict,
     transactions |-> <<>>, mode |-> "payments", err |-> ""]

\* "if re.match(signature, lines[0])", start the locals after lines[n:]
SkipHeader(v, start) ==
    IF start.lines = <<>> THEN [start EXCEPT !.err = "IndexError"]   \* lines[0]
    ELSE CASE v = "A" ->
                IF ExtraHeader(v, start.lines[1])
                THEN [start EXCEPT !.lines = Drop(@, 17)] ELSE start
           [] v \in {"B", "C"} ->
                IF ExtraHeader(v, start.lines[1])
                THEN [start EXCEPT !.lines = Tail(@)] ELSE start
           [] v = "D" ->
                IF ExtraHeader(v, start.lines[1])
                THEN [start EXCEPT !.lines = Drop(@, 3), !.mode = "charges_and_credits"]
                ELSE [start EXCEPT !.lines = Tail(@)]

\* the locals when the while loop is first reached
parse_begin(v, tabletext) ==
    SkipHeader(v, Locals(v, Drop(splitlines(tabletext), HeaderLines(v))))

\* re.match(r"\d{2}-\D{3}-\d{4}", line): the marker of posted_date (A)
IsDateShaped(line) ==
    /\ Len(line) >= 11
    /\ \A i \in {1, 2, 8, 9, 10, 11} : IsDigit(CharAt(line, i))
    /\ \A i \in {3, 7} : CharAt(line, i) = "-"
    /\ \A i \in {4, 5, 6} : ~IsDigit(CharAt(line, i))

\* re.match(r".*\d\.\d\d", line): the marker of amount (B)
HasAmount(line) ==
    \E i \in 1..Len(line) :
        /\ i + 3 <= Len(line)
        /\ IsDigit(CharAt(line, i))
        /\ CharAt(line, i + 1) = "."
        /\ IsDigit(CharAt(line, i + 2))
        /\ IsDigit(CharAt(line, i + 3))

CR_SUFFIX == " " \o Nbsp \o "CR"

\* "^[\d,]*\.\d\d $": digits and commas, a point, two digits, a blank
IsAmountBody(body, n) ==
    /\ n >= 4
    /\ CharAt(body, n) = " "
    /\ IsDigit(CharAt(body, n - 1))
    /\ IsDigit(CharAt(body, n - 2))
    /\ CharAt(body, n - 3) = "."
    /\ \A i \in 1..(n - 4) : IsDigit(CharAt(body, i)) \/ CharAt(body, i) = ","
WithoutCR(line) ==
    IF EndsWith(line, Nbsp \o "CR") THEN SubSeq(line, 1, Len(line) - 3) ELSE line

\* re.match(r"^[\d,]*\.\d\d (\xa0CR)?$", line): the marker of amount (C)
IsAmountLine(line) == IsAmountBody(WithoutCR(line), Len(WithoutCR(line)))

\* a case that pops a line into a field and leaves the state where it is
PopIntoAndStay(p, key, next) ==
    [p EXCEPT !.buffer = DictSet(@, key, Head(p.lines)),
              !.lines = Tail(@)]

\* one case of the match statement that only pops a line into a field
PopInto(p, key, next) ==
    [p EXCEPT !.buffer = DictSet(@, key, Head(p.lines)),
              !.lines = Tail(@),
              !.state = next]

\* a last field that stores the value and pushes no token
LastFieldWithoutToken(p, key, value) ==
    [p EXCEPT !.buffer = DictSet(@, key, value),
              !.lines = Tail(@),
              !.state = END_OF_ROW]

\* a last field that stores the value and pushes the token but stays where it is
LastFieldAndStay(p, key, value) ==
    [p EXCEPT !.buffer = DictSet(@, key, value),
              !.lines = <<END_OF_ROW_TOKEN>> \o Tail(@)]

\* the last field of a row: the value is stored and the token pushed
LastField(p, key, value) ==
    [p EXCEPT !.buffer = DictSet(@, key, value),
              !.lines = <<END_OF_ROW_TOKEN>> \o Tail(@),
              !.state = END_OF_ROW]

\* an end of row that appends the row and goes on with the buffer as it is
EndOfRowKeepingBuffer(v, p) ==
    [p EXCEPT !.transactions = Append(@, p.buffer),
              !.state = initial_state(v),
              !.lines = Tail(@)]

\* case self.END_OF_ROW
EndOfRow(v, p) ==
    [p EXCEPT !.transactions = Append(@, p.buffer),
              !.buffer = EmptyDict,
              !.state = initial_state(v),
              !.lines = Tail(@)]

\* the multi-line description of A (sep = "") and B (sep = " ")
Accumulate(p, key, sep, text) ==
    [p EXCEPT !.buffer = IF key \in DOMAIN p.buffer
                         THEN [@ EXCEPT ![key] = @ \o sep \o text]
                         ELSE @ @@ (key :> text),
              !.lines = Tail(@)]

\* the rest of the posting_date line, pushed back without its first character
PushBack(remaining_line, lines) ==
    IF remaining_line /= "" THEN <<From(remaining_line, 2)>> \o Tail(lines) ELSE Tail(lines)

\* posting_date of B and D: six characters, the rest pushed back
PostingDate(p) ==
    [p EXCEPT !.buffer = DictSet(@, "posting_date",
                                 IF Len(Head(p.lines)) <= 6 THEN Head(p.lines)
                                 ELSE SubSeq(Head(p.lines), 1, 6)),
              !.lines = PushBack(IF Len(Head(p.lines)) <= 6 THEN ""
                                 ELSE From(Head(p.lines), 7), @),
              !.state = "transaction_description"]

\* the cases of A with a category state that pops its line whatever it is
StepAPoppingCategory(p) ==
    LET st == p.state
        l == Head(p.lines)
    IN CASE st = "reward_earned" -> PopInto(p, "reward_earned", "amount")
         [] st = "amount" -> PopInto(p, "amount", "category")
         [] st = "category" -> PopInto(p, "category", "description")
         [] st = "description" ->
              IF IsDateShaped(l) THEN [p EXCEPT !.state = "posted_date"]
              ELSE Accumulate(p, "description", "", l)
         [] st = "posted_date" -> PopInto(p, "posted_date", "transaction_date")
         [] st = "transaction_date" -> LastField(p, "transaction_date", l)
         [] st = END_OF_ROW -> EndOfRow("A", p)

StepA(p) ==
    LET st == p.state
        l == Head(p.lines)
    IN CASE st = "reward_earned" -> PopInto(p, "reward_earned", "amount")
         [] st = "amount" -> PopInto(p, "amount", "category")
         [] st = "category" ->
              IF l /= EnDash
              THEN [p EXCEPT !.buffer = DictSet(@, "category", ""), !.state = "description"]
              ELSE PopInto(p, "category", "description")
         [] st = "description" ->
              IF IsDateShaped(l) THEN [p EXCEPT !.state = "posted_date"]
              ELSE Accumulate(p, "description", "", l)
         [] st = "posted_date" -> PopInto(p, "posted_date", "transaction_date")
         [] st = "transaction_date" -> LastField(p, "transaction_date", l)
         [] st = END_OF_ROW -> EndOfRow("A", p)

StepB(p) ==
    LET st == p.state
        l == Head(p.lines)
    IN CASE st = "transaction_date" -> PopInto(p, "transaction_date", "posting_date")
         [] st = "posting_date" -> PostingDate(p)
         [] st = "transaction_description" ->
              IF HasAmount(l) THEN [p EXCEPT !.state = "amount"]
              ELSE Accumulate(p, "transaction_description", " ", l)
         [] st = "amount" -> LastField(p, "amount", l)
         [] st = END_OF_ROW -> EndOfRow("B", p)

\* the cases of C on the line l, parts = l.split()
StepCOn(p, l, parts) ==
    CASE p.state = "transaction_date" ->
           IF Len(parts) < 2 THEN [p EXCEPT !.lines = Tail(@), !.err = "IndexError"]
           ELSE [p EXCEPT !.buffer = DictSet(@, "transaction_date",
                                             parts[1] \o " " \o parts[2]),
                          !.lines = IF Len(parts) = 4
                                    THEN <<parts[3] \o " " \o parts[4]>> \o Tail(@)
                                    ELSE Tail(@),
                          !.state = "posting_date"]
      [] p.state = "posting_date" ->
           IF Len(parts) < 2 THEN [p EXCEPT !.lines = Tail(@), !.err = "IndexError"]
           ELSE [p EXCEPT !.buffer = DictSet(@, "posting_date",
                                             parts[1] \o " " \o parts[2]),
                          !.lines = Tail(@),
                          !.state = "description"]
      [] p.state = "description" ->
           IF IsAmountLine(l) THEN [p EXCEPT !.state = "amount"]
           ELSE Accumulate(p, "description", " ", Join(" ", parts))
      [] p.state = "amount" -> LastField(p, "amount", Strip(l))
      [] p.state = END_OF_ROW -> EndOfRow("C", p)

StepC(p) == StepCOn(p, Head(p.lines), Split(Head(p.lines)))

\* description[2:] when the description starts with the mark and a blank
Unmarked(description) ==
    IF StartsWith(description, YAcute \o " ") THEN From(description, 3) ELSE description

\* the cases of D with an amount that is stored as it is in either mode
StepDUnsigned(p) ==
    CASE p.state = "transaction_date" -> PopInto(p, "transaction_date", "posting_date")
      [] p.state = "posting_date" -> PostingDate(p)
      [] p.state = "transaction_description" ->
           [p EXCEPT !.buffer = DictSet(@, "transaction_description",
                                        Unmarked(Join(" ", Split(Head(p.lines))))),
                     !.lines = Tail(@),
                     !.state = IF p.mode = "payments" THEN "amount" ELSE "category"]
      [] p.state = "category" -> PopInto(p, "category", "amount")
      [] p.state = "amount" -> LastField(p, "amount", Head(p.lines))
      [] p.state = END_OF_ROW -> EndOfRow("D", p)

StepD(p) ==
    CASE p.state = "transaction_date" -> PopInto(p, "transaction_date", "posting_date")
      [] p.state = "posting_date" -> PostingDate(p)
      [] p.state = "transaction_description" ->
           [p EXCEPT !.buffer = DictSet(@, "transaction_description",
                                        Unmarked(Join(" ", Split(Head(p.lines))))),
                     !.lines = Tail(@),
                     !.state = IF p.mode = "payments" THEN "amount" ELSE "category"]
      [] p.state = "category" -> PopInto(p, "category", "amount")
      [] p.state = "amount" ->
           LastField(p, "amount",
                     IF p.mode = "payments" THEN "-" \o Head(p.lines) ELSE Head(p.lines))
      [] p.state = END_OF_ROW -> EndOfRow("D", p)

\* one iteration of "while lines: match state", p.lines not empty
parse_step(v, p) ==
    CASE v = "A" -> StepA(p)
      [] v = "B" -> StepB(p)
      [] v = "C" -> StepC(p)
      [] v = "D" -> StepD(p)

(***************************************************************************)
(* DataFrames.  A frame is [rows, date_dtype]: rows is the sequence of its *)
(* rows, each a function from the columns that hold a value in that row    *)
(* (a column missing from a row holds NaN there) to strings; date_dtype is *)
(* "str" while the transaction_date column holds strings and "datetime"    *)
(* once to_datetime has replaced it (its cells are then kept in ISO form,  *)
(* the form to_csv writes).  The integer column transaction_date_year is   *)
(* kept as decimal strings.                                                *)
(***************************************************************************)
DataFrame(rows) == [rows |-> rows, date_dtype |-> "str"]

Columns(df) == UNION {DOMAIN df.rows[i] : i \in 1..Len(df.rows)}

\* a concatenation that puts each table in front of the tables before it
RECURSIVE ConcatLastFirst(_)
ConcatLastFirst(tables) ==
    IF tables = <<>> THEN <<>> ELSE ConcatLastFirst(Tail(tables)) \o Head(tables)

\* pd.concat(transaction_tables)
RECURSIVE Concat(_)
Concat(tables) == IF tables = <<>> THEN <<>> ELSE Head(tables) \o Concat(Tail(tables))

\* df[col] = value
SetColumn(df, col, value) ==
    [df EXCEPT !.rows = [i \in 1..Len(df.rows) |-> DictSet(df.rows[i], col, value)]]

\* df[dst] = df[src]: NaN stays NaN
CopyColumn(df, src, dst) ==
    [df EXCEPT !.rows = [i \in 1..Len(df.rows) |->
        IF src \in DOMAIN df.rows[i]
        THEN DictSet(df.rows[i], dst, df.rows[i][src]) ELSE df.rows[i]]]

(***************************************************************************)
(* _pre_process_transactions.  The frame is changed in place, so the       *)
(* result is [err, df]: the frame as the call leaves it, also when the     *)
(* call raises err part of the way.                                        *)
(***************************************************************************)
\* .str.replace("$", "").str.replace(",", "")
NormalizeAmountA(x) == Replace(Replace(x, "$", ""), ",", "")
\* .str.replace(",", "")
NormalizeAmountBD(x) == Replace(x, ",", "")
\* lambda x: "-" + x.replace(" \xa0CR", "") if " \xa0CR" in x else x
Credit(y) == IF Contains(y, CR_SUFFIX) THEN "-" \o Replace(y, CR_SUFFIX, "") ELSE y
\* a lambda that prepends "-" and leaves the suffix where it is
NormalizeAmountCKeepingSuffix(x) ==
    (IF Contains(x, CR_SUFFIX) THEN "-" ELSE "") \o Replace(x, ",", "")

\* .str.replace(",", "").apply(the lambda)
NormalizeAmountC(x) == Credit(Replace(x, ",", ""))

NormalizeAmount(v, x) ==
    CASE v = "A" -> NormalizeAmountA(x)
      [] v = "C" -> NormalizeAmountC(x)
      [] v \in {"B", "D"} -> NormalizeAmountBD(x)

NormalizeAmounts(v, df) ==
    [df EXCEPT !.rows = [i \in 1..Len(df.rows) |->
        IF "amount" \in DOMAIN df.rows[i]
        THEN [df.rows[i] EXCEPT !["amount"] = NormalizeAmount(v, @)] ELSE df.rows[i]]]

ROW_DATE_FORMAT(v) ==
    CASE v = "A" -> <<"%d", "-", "%b", "-", "%Y">>
      [] v = "C" -> <<"%b", ".", " ", "%d", ",", " ", "%Y">>
      [] v \in {"B", "D"} -> <<"%b", " ", "%d", " ", "%Y">>

\* what the lambda looks for in the raw date, and what joins date and year
DECEMBER(v) == IF v = "C" THEN "Dec." ELSE "Dec"
YEAR_JOIN(v) == IF v = "C" THEN ", " ELSE " "

\* a rule that also looks at the day: the year before only for statements
\* dated in the first half of January
ResolveYearByDay(v, statement_date, x) ==
    IF statement_date.month = 1 /\ statement_date.day <= 15 /\ Contains(x, DECEMBER(v))
    THEN statement_date.year - 1 ELSE statement_date.year

\* the year given to one row (B, C, D)
ResolveYear(v, statement_date, x) ==
    IF statement_date.month = 1 /\ Contains(x, DECEMBER(v))
    THEN statement_date.year - 1 ELSE statement_date.year

\* transactions["transaction_date_year"] = self.statement_date.year
WithYear(df, statement_date) ==
    SetColumn(df, "transaction_date_year", ToStr(statement_date.year))

\* transactions.loc[transactions["transaction_date"].apply(lambda), ...] -= 1
WithResolvedYears(v, df, statement_date) ==
    [df EXCEPT !.rows = [i \in 1..Len(df.rows) |->
        [df.rows[i] EXCEPT !["transaction_date_year"] =
            ToStr(ResolveYear(v, statement_date, df.rows[i]["transaction_date"]))]]]

\* what to_datetime makes of each row: the date and the year joined, parsed
ParseDates(v, df) ==
    [i \in 1..Len(df.rows) |->
        strptime(df.rows[i]["transaction_date"] \o YEAR_JOIN(v)
                   \o df.rows[i]["transaction_date_year"],
                 ROW_DATE_FORMAT(v))]

\* transactions["transaction_date"] = the parsed dates, if every one parsed
StoreDates(df, parsed) ==
    IF \E i \in 1..Len(df.rows) : ~parsed[i].ok
    THEN [err |-> "ValueError", df |-> df]
    ELSE [err |-> "",
          df |-> [rows |-> [i \in 1..Len(df.rows) |->
                     [df.rows[i] EXCEPT !["transaction_date"] = IsoDate(parsed[i])]],
                  date_dtype |-> "datetime"]]

to_datetime(v, df) == StoreDates(df, ParseDates(v, df))

\* "Determine the year from the statement date" and to_datetime (B, C, D).
\* On a datetime column the lambda ("Dec" in a Timestamp) or the join with the
\* year (datetimes + str) raises TypeError.
ResolveDates(v, df, statement_date) ==
    IF df.date_dtype = "datetime"
    THEN [err |-> "TypeError", df |-> WithYear(df, statement_date)]
    ELSE to_datetime(v, WithResolvedYears(v, WithYear(df, statement_date), statement_date))

\* pd.to_datetime(..., format="%d-%b-%Y") of A
ParseDatesA(df) ==
    [i \in 1..Len(df.rows) |-> strptime(df.rows[i]["transaction_date"], ROW_DATE_FORMAT("A"))]

\* .dt.strftime("%Y-%m-%d"), then the amounts
StoreDatesA(df, parsed) ==
    IF \E i \in 1..Len(df.rows) : ~parsed[i].ok THEN [err |-> "ValueError", df |-> df]
    ELSE [err |-> "",
          df |-> NormalizeAmounts("A",
                   [df EXCEPT !.rows = [i \in 1..Len(df.rows) |->
                       [df.rows[i] EXCEPT !["transaction_date"] = IsoDate(parsed[i])]]])]

PreProcessA(df) ==
    IF "transaction_date" \notin Columns(df) THEN [err |-> "KeyError", df |-> df]
    ELSE StoreDatesA(df, ParseDatesA(df))

PreProcessBD(v, df, statement_date) ==
    IF "transaction_description" \notin Columns(df) THEN [err |-> "KeyError", df |-> df]
    ELSE ResolveDates(v,
            NormalizeAmounts(v, CopyColumn(df, "transaction_description", "description")),
            statement_date)

PreProcessC(df, statement_date) ==
    IF "amount" \notin Columns(df) THEN [err |-> "KeyError", df |-> df]
    ELSE ResolveDates("C", NormalizeAmounts("C", df), statement_date)

pre_process_transactions(v, df, statement_date) ==
    CASE v = "A" -> PreProcessA(df)
      [] v = "C" -> PreProcessC(df, statement_date)
      [] v \in {"B", "D"} -> PreProcessBD(v, df, statement_date)

(***************************************************************************)
(* get_csv_text.  The CSV text is kept as the sequence of its records, the *)
(* header line left out; a NaN cell is written as the empty field.         *)
(***************************************************************************)
OUTPUT_COLUMNS == <<"transaction_date", "description", "amount", "account_name", "file_name">>

Cell(row, col) == IF col \in DOMAIN row THEN row[col] ELSE ""

\* a writer that puts the last row first
to_csv_last_first(df) ==
    [i \in 1..Len(df.rows) |->
        [c \in 1..Len(OUTPUT_COLUMNS) |->
            Cell(df.rows[IF i = 1 THEN Len(df.rows) ELSE i - 1], OUTPUT_COLUMNS[c])]]

to_csv(df) ==
    [i \in 1..Len(df.rows) |-> [c \in 1..Len(OUTPUT_COLUMNS) |-> Cell(df.rows[i], OUTPUT_COLUMNS[c])]]

\* the column selection and to_csv
Select(named) ==
    IF \E c \in 1..Len(OUTPUT_COLUMNS) : OUTPUT_COLUMNS[c] \notin Columns(named)
    THEN [err |-> "KeyError", transactions |-> named, csv_text |-> <<>>]
    ELSE [err |-> "", transactions |-> named, csv_text |-> to_csv(named)]

\* the rest of get_csv_text, pp what _pre_process_transactions made
Export(pp, account, file) ==
    IF pp.err /= ""
    THEN [err |-> pp.err, transactions |-> pp.df, csv_text |-> <<>>]
    ELSE Select(SetColumn(SetColumn(pp.df, "account_name", account), "file_name", file))

\* [err, transactions, csv_text]: transactions is self.transactions after the call
get_csv_text(v, account, file, df, statement_date) ==
    Export(pre_process_transactions(v, df, statement_date), account, file)

(***************************************************************************)
(* The constructor as a function of the page texts: what __init__ leaves   *)
(* in the object, [err, statement_date, transactions].  The actions below  *)
(* run the same calls one step at a time.                                  *)
(***************************************************************************)
\* "while lines: match state": the locals when the loop ends or raises
RECURSIVE WhileLines(_, _)
WhileLines(v, p) ==
    IF p.err /= "" \/ p.lines = <<>> THEN p ELSE WhileLines(v, parse_step(v, p))

\* the locals of _parse_transaction_table(tabletext) when it returns or raises
parse_transaction_table(v, tabletext) == WhileLines(v, parse_begin(v, tabletext))

\* the table texts of the pages in the order the two loops visit them
RECURSIVE TableTexts(_, _)
TableTexts(v, pages) ==
    IF pages = <<>> THEN <<>>
    ELSE tabletext_extractor(v, Head(pages)) \o TableTexts(v, Tail(pages))

\* transaction_tables.append(self._parse_transaction_table(tabletext)) for
\* each table text: [err, tables]
RECURSIVE ParseTables(_, _, _)
AppendTable(v, texts, tables, p) ==
    IF p.err /= "" THEN [err |-> p.err, tables |-> tables]
    ELSE ParseTables(v, Tail(texts), Append(tables, p.transactions))
ParseTables(v, texts, tables) ==
    IF texts = <<>> THEN [err |-> "", tables |-> tables]
    ELSE AppendTable(v, texts, tables, parse_transaction_table(v, Head(texts)))

\* pd.concat(transaction_tables)
ConcatOrError(r) ==
    IF r.err /= "" THEN [err |-> r.err, transactions |-> DataFrame(<<>>)]
    ELSE IF r.tables = <<>> THEN [err |-> "ValueError", transactions |-> DataFrame(<<>>)]
    ELSE [err |-> "", transactions |-> DataFrame(Concat(r.tables))]

extract_transactions(v, pages) ==
    ConcatOrError(ParseTables(v, TableTexts(v, pages), <<>>))

\* the object after the statement date r has been extracted from d
AfterStatementDate(v, d, r) ==
    IF r.err /= "" \/ PAGE_TYPE_TRANSACTIONS \notin DOMAIN d
    THEN [err |-> IF r.err /= "" THEN r.err ELSE "KeyError",
          statement_date |-> r.date, transactions |-> DataFrame(<<>>)]
    ELSE [statement_date |-> r.date] @@ extract_transactions(v, d[PAGE_TYPE_TRANSACTIONS])

\* the object after the pages have been classified as d
AfterClassification(v, d) ==
    AfterStatementDate(v, d,
        IF PAGE_TYPE_SUMMARY \notin DOMAIN d
        THEN [err |-> "KeyError", date |-> NoDate]
        ELSE extract_statement_date(v, d[PAGE_TYPE_SUMMARY][1]))

\* BillParser(account_name, file_name, pagetexts)
BillParser(v, texts) == AfterClassification(v, classify_pages(v, texts))

(***************************************************************************)
(* The state: the fields of one BillParser object, the locals of its       *)
(* constructor while it runs, and what get_csv_text has returned.          *)
(***************************************************************************)
VARIABLES
    vendor,                \* which subclass the object is
    account_name, file_name, pagetexts,
    classified_pagetexts, statement_date, transactions,
    pc,                    \* where the constructor is; "ready" once it has returned
    error,                 \* the exception that ended the constructor, "" if none
    pages_left,            \* _extract_transactions: the pagetexts still to visit
    tabletexts,            \* the table texts of the current page still to parse
    transaction_tables,
    parser,                \* the locals of the running _parse_transaction_table
    csv_texts              \* one [err, csv_text] per call of get_csv_text so far

vars == <<vendor, account_name, file_name, pagetexts, classified_pagetexts,
          statement_date, transactions, pc, error, pages_left, tabletexts,
          transaction_tables, parser, csv_texts>>

inputs == <<vendor, account_name, file_name, pagetexts>>
extraction == <<pages_left, tabletexts, transaction_tables, parser>>

NoParser == [lines |-> <<>>, state |-> "", buffer |-> EmptyDict,
             transactions |-> <<>>, mode |-> "", err |-> ""]

\* how many times get_csv_text is called on one object
MaxCalls == 2

\* self.classified_pagetexts = self._classify_pages(self.pagetexts)
ClassifyPages ==
    /\ pc = "new"
    /\ classified_pagetexts' = classify_pages(vendor, pagetexts)
    /\ pc' = "classified"
    /\ UNCHANGED <<inputs, statement_date, transactions, error, extraction, csv_texts>>

\* self.statement_date = self._extract_statement_date(self.classified_pagetexts["summary"][0])
\* a constructor that goes on whatever the call made
StoreStatementDateAndGoOn(r) ==
    /\ statement_date' = r.date
    /\ error' = r.err
    /\ pc' = "dated"

\* (r is what the call made: the date, or the exception that ends the constructor)
StoreStatementDate(r) ==
    /\ statement_date' = r.date
    /\ error' = r.err
    /\ pc' = IF r.err = "" THEN "dated" ELSE "failed"

ExtractStatementDate ==
    /\ pc = "classified"
    /\ StoreStatementDate(
          IF PAGE_TYPE_SUMMARY \notin DOMAIN classified_pagetexts
          THEN [err |-> "KeyError", date |-> NoDate]
          ELSE extract_statement_date(vendor, classified_pagetexts[PAGE_TYPE_SUMMARY][1]))
    /\ UNCHANGED <<inputs, classified_pagetexts, transactions, extraction, csv_texts>>

\* self._extract_transactions(self.classified_pagetexts["transactions"]) is entered
ExtractTransactions ==
    /\ pc = "dated"
    /\ IF PAGE_TYPE_TRANSACTIONS \notin DOMAIN classified_pagetexts
       THEN /\ error' = "KeyError"
            /\ pc' = "failed"
            /\ UNCHANGED pages_left
       ELSE /\ pages_left' = classified_pagetexts[PAGE_TYPE_TRANSACTIONS]
            /\ pc' = "pages"
            /\ UNCHANGED error
    /\ UNCHANGED <<inputs, classified_pagetexts, statement_date, transactions,
                   tabletexts, transaction_tables, parser, csv_texts>>

\* for pagetext in pagetexts: tabletexts = self._tabletext_extractor(pagetext)
NextPage ==
    /\ pc = "pages"
    /\ pages_left /= <<>>
    /\ tabletexts' = tabletext_extractor(vendor, Head(pages_left))
    /\ pages_left' = Tail(pages_left)
    /\ pc' = "tables"
    /\ UNCHANGED <<inputs, classified_pagetexts, statement_date, transactions, error,
                   transaction_tables, parser, csv_texts>>

\* for tabletext in tabletexts: self._parse_transaction_table(tabletext) is entered
NextTable ==
    /\ pc = "tables"
    /\ tabletexts /= <<>>
    /\ parser' = parse_begin(vendor, Head(tabletexts))
    /\ tabletexts' = Tail(tabletexts)
    /\ error' = parser'.err
    /\ pc' = IF parser'.err = "" THEN "parse" ELSE "failed"
    /\ UNCHANGED <<inputs, classified_pagetexts, statement_date, transactions,
                   pages_left, transaction_tables, csv_texts>>

\* one iteration of the while loop of _parse_transaction_table
ParseStep ==
    /\ pc = "parse"
    /\ parser.lines /= <<>>
    /\ parser' = parse_step(vendor, parser)
    /\ error' = parser'.err
    /\ pc' = IF parser'.err = "" THEN "parse" ELSE "failed"
    /\ UNCHANGED <<inputs, classified_pagetexts, statement_date, transactions,
                   pages_left, tabletexts, transaction_tables, csv_texts>>

\* a return that makes a row of what the buffer holds when the lines run out
ParseReturnWithPartialRow ==
    /\ pc = "parse"
    /\ parser.lines = <<>>
    /\ transaction_tables' =
           Append(transaction_tables,
                  IF parser.buffer = EmptyDict THEN parser.transactions
                  ELSE Append(parser.transactions, parser.buffer))
    /\ pc' = "tables"
    /\ UNCHANGED <<inputs, classified_pagetexts, statement_date, transactions, error,
                   pages_left, tabletexts, parser, csv_texts>>

\* the loop ends: return pd.DataFrame(transactions), appended to transaction_tables
ParseReturn ==
    /\ pc = "parse"
    /\ parser.lines = <<>>
    /\ transaction_tables' = Append(transaction_tables, parser.transactions)
    /\ pc' = "tables"
    /\ UNCHANGED <<inputs, classified_pagetexts, statement_date, transactions, error,
                   pages_left, tabletexts, parser, csv_texts>>

\* the tables of the page are done: on to the next pagetext
PageDone ==
    /\ pc = "tables"
    /\ tabletexts = <<>>
    /\ pc' = "pages"
    /\ UNCHANGED <<inputs, classified_pagetexts, statement_date, transactions, error,
                   extraction, csv_texts>>

\* transactions_all = pd.concat(transaction_tables), which raises on an empty list;
\* the constructor returns
ConcatTables ==
    /\ pc = "pages"
    /\ pages_left = <<>>
    /\ IF transaction_tables = <<>>
       THEN /\ error' = "ValueError"
            /\ pc' = "failed"
            /\ UNCHANGED transactions
       ELSE /\ transactions' = DataFrame(Concat(transaction_tables))
            /\ pc' = "ready"
            /\ UNCHANGED error
    /\ UNCHANGED <<inputs, classified_pagetexts, statement_date, extraction, csv_texts>>

\* a call of get_csv_text on the constructed object
\* (r is what the call made: the frame it leaves, and its result)
Returned(r) ==
    /\ transactions' = r.transactions
    /\ csv_texts' = Append(csv_texts, [err |-> r.err, csv_text |-> r.csv_text])

GetCsvText ==
    /\ pc = "ready"
    /\ Len(csv_texts) < MaxCalls
    /\ Returned(get_csv_text(vendor, account_name, file_name, transactions, statement_date))
    /\ UNCHANGED <<inputs, classified_pagetexts, statement_date, pc, error, extraction>>

Next ==
    \/ ClassifyPages
    \/ ExtractStatementDate
    \/ ExtractTransactions
    \/ NextPage
    \/ NextTable
    \/ ParseStep
    \/ ParseReturn
    \/ PageDone
    \/ ConcatTables
    \/ GetCsvText

\* the object before its constructor runs, on the given input
Start(v, texts) ==
    /\ vendor = v
    /\ account_name = "acct"
    /\ file_name = "bill.pdf"
    /\ pagetexts = texts
    /\ classified_pagetexts = EmptyDict
    /\ statement_date = NoDate
    /\ transactions = DataFrame(<<>>)
    /\ pc = "new"
    /\ error = ""
    /\ pages_left = <<>>
    /\ tabletexts = <<>>
    /\ transaction_tables = <<>>
    /\ parser = NoParser
    /\ csv_texts = <<>>

(***************************************************************************)
(* Inputs: page texts in each vendor's layout, built from lines.           *)
(***************************************************************************)
\* the text of a page whose lines are given
Text(lines) == IF lines = <<>> THEN "" ELSE Join("\n", lines) \o "\n"

ABBR == <<"Jan", "Feb", "Mar", "Apr", "May", "Jun",
          "Jul", "Aug", "Sep", "Oct", "Nov", "Dec">>
FULL == <<"January", "February", "March", "April", "May", "June",
          "July", "August", "September", "October", "November", "December">>

\* a date as the vendor prints it on the summary page
StatementDateText(v, d) ==
    CASE v = "A" -> ABBR[d.month] \o " " \o ToStr(d.day) \o ", " \o ToStr(d.year)
      [] v = "C" -> ABBR[d.month] \o ". " \o ToStr(d.day) \o ", " \o ToStr(d.year)
      [] v \in {"B", "D"} -> FULL[d.month] \o " " \o ToStr(d.day) \o ", " \o ToStr(d.year)

\* a date as the vendor prints it in a table row, month as given (e.g. "Dec", "DEC")
RowDateText(v, month, day, year) ==
    CASE v = "A" -> Pad(ToStr(day), 2) \o "-" \o month \o "-" \o ToStr(year)
      [] v = "C" -> month \o ". " \o Pad(ToStr(day), 2)
      [] v \in {"B", "D"} -> month \o " " \o Pad(ToStr(day), 2)

\* the lines of a summary page that prints the text date as its statement date
SummaryLines(v, date) ==
    CASE v = "A" -> <<"Payment due by Feb 5", "Dec 16 to " \o date, "Statement period">>
      [] v = "B" -> <<"Balance from your last statement", "Statement date: " \o date \o " ">>
      [] v = "C" -> <<"Summary of your account", "Statement date", date>>
      [] v = "D" -> <<"Your account at a glance", "Closing statement period",
                      "Dec 16 to " \o date>>

\* the lines that make the classifier label a page "transactions"
TransactionsMark(v) ==
    CASE v = "A" -> <<"Transaction", "Date">>
      [] v = "B" -> <<"TRANSACTION DESCRIPTION">>
      [] v = "C" -> <<"Transactions since your last statement">>
      [] v = "D" -> <<"Transactions from Dec 16">>

\* the header lines of a table; extra adds the vendor's extra header
TableHeader(v, extra) ==
    CASE v = "A" -> <<"Reward", "Earned", "h", "h", "h", "h", "h", "h", "h">>
                    \o (IF extra THEN <<"Interest rates">> \o [i \in 1..16 |-> "r"] ELSE <<>>)
      [] v = "B" -> <<"TRANSACTION", "DATE", "POSTING", "DATE", "DESCRIPTION", "AMOUNT">>
                    \o (IF extra THEN <<"Purchases - Card #1">> ELSE <<>>)
      [] v = "C" -> <<"TRANS", "DATE", "POST", "DATE", "DESCRIPTION", "AMOUNT">>
                    \o (IF extra THEN <<"Card number: XXXX XXXX XXXX 1">> ELSE <<>>)
      [] v = "D" -> <<"Trans", "date", "Post", "date", "Description">>
                    \o (IF extra THEN <<"Spend Categories", "h", "Amount">> ELSE <<"Amount">>)

\* the line that follows a table
TableEnd(v) ==
    CASE v = "A" -> NEW_BALANCE \o "$9"
      [] v = "B" -> "Total 9"
      [] v = "C" -> SUBTOTAL \o "X"
      [] v = "D" -> "Total"

TableLines(v, extra, body) == TableHeader(v, extra) \o body \o <<TableEnd(v)>>

\* the lines of one row in the vendor's order of fields; extra tells D's table
\* of charges and credits, whose rows carry a category
Row(v, extra, date, descriptions, amount_line) ==
    CASE v = "A" -> <<"1%", amount_line, EnDash>> \o descriptions \o <<"02-Jan-2024", date>>
      [] v = "B" -> <<date, "Jan 02">> \o descriptions \o <<amount_line>>
      [] v = "C" -> <<date, "Jan. 02">> \o descriptions \o <<amount_line>>
      [] v = "D" -> <<date, "Jan 02", Join("  ", descriptions)>>
                    \o (IF extra THEN <<"Dining">> ELSE <<>>) \o <<amount_line>>

\* the line a vendor prints for an amount; credit marks C's credit suffix
AmountLine(v, amount, credit) ==
    IF v = "C" THEN amount \o " " \o (IF credit THEN Nbsp \o "CR" ELSE "") ELSE amount

\* the lines of one well-formed row of a table without extra header
RowLines(v, date, descriptions, amount) ==
    Row(v, FALSE, date, descriptions, AmountLine(v, amount, FALSE))

JAN15 == [ok |-> TRUE, year |-> 2024, month |-> 1, day |-> 15]

\* the table with the single row whose description is desc
SmallTable(v, desc) ==
    TableLines(v, FALSE, RowLines(v, RowDateText(v, "Jan", 3, 2024), <<desc>>, "1.00"))

\* the table with two rows whose descriptions are given
TwoRowTable(v, first, second) ==
    TableLines(v, FALSE,
               RowLines(v, RowDateText(v, "Jan", 3, 2024), <<first>>, "1.00")
               \o RowLines(v, RowDateText(v, "Jan", 4, 2024), <<second>>, "2.00"))

(***************************************************************************)
(* Spec: statements of up to MaxPages pages drawn from the pages below.    *)
(***************************************************************************)
MaxPages == 3

SummaryPage(v) == Text(SummaryLines(v, StatementDateText(v, JAN15)))
\* classified summary, but the date pattern finds nothing
UndatedSummaryPage(v) == Text(<<SummaryLines(v, "")[1]>>)
\* classified summary, the captured text is no date
MisdatedSummaryPage(v) == Text(SummaryLines(v, "Smarch 15, 2024"))
\* matches the summary pattern and the transactions pattern
MixedPage(v) ==
    Text(SummaryLines(v, StatementDateText(v, JAN15)) \o TransactionsMark(v)
         \o SmallTable(v, "T0"))
OneTablePage(v) == Text(TransactionsMark(v) \o SmallTable(v, "T1"))
\* a table of one row and a table of two rows
TwoTablePage(v) ==
    Text(TransactionsMark(v) \o SmallTable(v, "T2") \o TwoRowTable(v, "T3", "T4"))
NoTablePage(v) == Text(TransactionsMark(v) \o <<"No activity">>)
OtherPage == Text(<<"Important information">>)

PagePool(v) ==
    {SummaryPage(v), UndatedSummaryPage(v), MisdatedSummaryPage(v), MixedPage(v),
     OneTablePage(v), TwoTablePage(v), NoTablePage(v), OtherPage}

Statements(v) == UNION {[1..n -> PagePool(v)] : n \in 1..MaxPages}

Init == \E v \in Vendors : \E texts \in Statements(v) : Start(v, texts)

Spec == Init /\ [][Next]_vars

(***************************************************************************)
(* SpecRows: a summary page and one transactions page whose table holds up *)
(* to MaxRows rows of the kinds below, under a January or a March          *)
(* statement date, with or without the vendor's extra header.              *)
(***************************************************************************)
MaxRows == 2

MAR15 == [ok |-> TRUE, year |-> 2024, month |-> 3, day |-> 15]
RefDates == {JAN15, MAR15}

RowKinds == {"jan", "dec", "DEC", "odd"}

\* the lines of a row of the kind:
\*   jan  a January row, description of one line
\*   dec  a December row, description of two lines, amount with a thousands
\*        separator (and "$" for A, the credit suffix for C)
\*   DEC  a December row, the month in capitals
\*   odd  a row with a description of three lines whose amount line holds no
\*        plain number (for C, whose marker admits only digits and commas, a
\*        number with a thousands separator and no credit suffix)
RowOf(v, extra, kind) ==
    CASE kind = "jan" ->
           Row(v, extra, RowDateText(v, "Jan", 3, 2024), <<"COFFEE">>,
               AmountLine(v, "1.00", FALSE))
      [] kind = "dec" ->
           Row(v, extra, RowDateText(v, "Dec", 28, 2023), <<"AMAZON", "MARKETPLACE">>,
               AmountLine(v, IF v = "A" THEN "$1,234.56" ELSE "1,234.56", TRUE))
      [] kind = "DEC" ->
           Row(v, extra, RowDateText(v, "DEC", 28, 2023), <<"GAS">>,
               AmountLine(v, "2.00", FALSE))
      [] kind = "odd" ->
           Row(v, extra, RowDateText(v, "Jan", 5, 2024), <<"FX", "FEE", "REFUND">>,
               CASE v = "B" -> "5.00 USD" [] v = "C" -> "9,999.50 " [] OTHER -> "N/A")

RECURSIVE Body(_, _, _)
Body(v, extra, kinds) ==
    IF kinds = <<>> THEN <<>>
    ELSE RowOf(v, extra, Head(kinds)) \o Body(v, extra, Tail(kinds))

KindSeqs == UNION {[1..n -> RowKinds] : n \in 0..MaxRows}

RowsStatement(v, d, extra, kinds) ==
    << Text(SummaryLines(v, StatementDateText(v, d))),
       Text(TransactionsMark(v) \o TableLines(v, extra, Body(v, extra, kinds))) >>

InitRows ==
    \E v \in Vendors : \E d \in RefDates : \E extra \in BOOLEAN : \E kinds \in KindSeqs :
        Start(v, RowsStatement(v, d, extra, kinds))

SpecRows == InitRows /\ [][Next]_vars

(***************************************************************************)
(* SpecTables: a summary page and one transactions page whose table holds  *)
(* up to MaxRows rows of the kinds below, then the first lines of one more *)
(* row (the table breaks off inside it), then possibly a line that holds   *)
(* only an amount; with or without the vendor's extra header.              *)
(***************************************************************************)
TableRowKinds == {"long", "bare", "tight"}

\* the lines of a row of the kind:
\*   long   a description of two lines, every field on a line of its own
\*   bare   no description (for D, whose description is one line always, a
\*          blank one)
\*   tight  A: the category line left out; B and D: the description starts
\*          on the line of the posting date; C: both dates on one line
TableRow(v, extra, kind) ==
    CASE kind = "long" -> RowOf(v, extra, "dec")
      [] kind = "bare" ->
           (CASE v = "A" -> <<"1%", "1.00", EnDash, "02-Jan-2024", "03-Jan-2024">>
              [] v = "B" -> <<"Jan 03", "Jan 02", "1.00">>
              [] v = "C" -> <<"Jan. 03", "Jan. 02", "1.00 ">>
              [] v = "D" -> <<"Jan 03", "Jan 02", "  ">>
                            \o (IF extra THEN <<"Dining">> ELSE <<>>) \o <<"1.00">>)
      [] kind = "tight" ->
           (CASE v = "A" -> <<"1%", "2.00", "COFFEE", "02-Jan-2024", "04-Jan-2024">>
              [] v = "B" -> <<"Jan 04", "Jan 02 COFFEE", "2.00">>
              [] v = "C" -> <<"Jan. 04 Jan. 02", "COFFEE", "2.00 ">>
              [] v = "D" -> <<"Jan 04", "Jan 02 COFFEE">>
                            \o (IF extra THEN <<"Dining">> ELSE <<>>) \o <<"2.00">>)

RECURSIVE TableBody(_, _, _)
TableBody(v, extra, kinds) ==
    IF kinds = <<>> THEN <<>>
    ELSE TableRow(v, extra, Head(kinds)) \o TableBody(v, extra, Tail(kinds))

TableKindSeqs == UNION {[1..n -> TableRowKinds] : n \in 0..MaxRows}

\* a line that holds an amount only (the patterns of B and D end a table
\* behind such a line)
STRAY_AMOUNT == "0.00"

\* the first cut lines of one more row, and the line of an amount if stray
BrokenRow(v, extra, cut, stray) ==
    SubSeq(TableRow(v, extra, "long"), 1, cut) \o (IF stray THEN <<STRAY_AMOUNT>> ELSE <<>>)

TableStatement(v, extra, kinds, cut, stray) ==
    << SummaryPage(v),
       Text(TransactionsMark(v)
            \o TableLines(v, extra, TableBody(v, extra, kinds)
                                    \o BrokenRow(v, extra, cut, stray))) >>

InitTables ==
    \E v \in Vendors : \E extra \in BOOLEAN : \E kinds \in TableKindSeqs :
        \E stray \in BOOLEAN : \E cut \in 0..(Len(TableRow(v, extra, "long")) - 1) :
            Start(v, TableStatement(v, extra, kinds, cut, stray))

SpecTables == InitTables /\ [][Next]_vars

\* "while lines:" has an iteration to make
HasIteration == pc = "parse" /\ parser.lines /= <<>>

\* the same statements, run by an interpreter that goes on with the loop of
\* _parse_transaction_table while it has a next iteration or a return to
\* make: weak fairness of ParseReturn and of ParseStep.  ParseStep is enabled
\* exactly when the loop has an iteration to make (its two guards; each
\* iteration changes the locals), so its weak fairness
\*   []<>(~ENABLED <<ParseStep>>_vars) \/ []<><<ParseStep>>_vars
\* is written with that condition.
LiveTables ==
    /\ SpecTables
    /\ WF_vars(ParseReturn)
    /\ ([]<>~HasIteration \/ []<><<ParseStep>>_vars)

(***************************************************************************)
(* SpecSentinel: a summary page and one transactions page whose table      *)
(* holds up to MaxRows rows, some of them with a description that is the   *)
(* very text of END_OF_ROW_TOKEN; with or without the vendor's extra       *)
(* header.                                                                 *)
(***************************************************************************)
SentinelRowKinds == {"bare", "tight", "named"}

\* the lines of a row of the kind: bare and tight as above, named a row whose
\* description is one line that reads like the token
SentinelRow(v, extra, kind) ==
    IF kind = "named"
    THEN Row(v, extra, RowDateText(v, "Jan", 5, 2024), <<END_OF_ROW_TOKEN>>,
             AmountLine(v, "3.00", FALSE))
    ELSE TableRow(v, extra, kind)

RECURSIVE SentinelBody(_, _, _)
SentinelBody(v, extra, kinds) ==
    IF kinds = <<>> THEN <<>>
    ELSE SentinelRow(v, extra, Head(kinds)) \o SentinelBody(v, extra, Tail(kinds))

SentinelKindSeqs == UNION {[1..n -> SentinelRowKinds] : n \in 0..MaxRows}

SentinelStatement(v, extra, kinds) ==
    << SummaryPage(v),
       Text(TransactionsMark(v) \o TableLines(v, extra, SentinelBody(v, extra, kinds))) >>

InitSentinel ==
    \E v \in Vendors : \E extra \in BOOLEAN : \E kinds \in SentinelKindSeqs :
        Start(v, SentinelStatement(v, extra, kinds))

SpecSentinel == InitSentinel /\ [][Next]_vars

(***************************************************************************)
(* Properties.  csv_texts[k].csv_text[i] is the i-th record of the k-th    *)
(* call: <<transaction_date, description, amount, account_name, file_name>>*)
(***************************************************************************)
IsoYear(d) == ToNat(SubSeq(d, 1, 4))
IsoMonth(d) == ToNat(SubSeq(d, 6, 7))

Exported(k) == csv_texts[k].csv_text

\* C1: for B, C and D every exported row has the year reference_year - 1 when
\* the statement month is January and the row's month is December, and the
\* year reference_year for every other pair of months, row by row.
C1_YearResolvedPerRow ==
    (vendor \in {"B", "C", "D"} /\ csv_texts /= <<>> /\ csv_texts[1].err = "") =>
        \A i \in 1..Len(Exported(1)) :
            IsoYear(Exported(1)[i][1]) =
                IF statement_date.month = 1 /\ IsoMonth(Exported(1)[i][1]) = 12
                THEN statement_date.year - 1
                ELSE statement_date.year

\* the field that holds the description, which is also the name of the state
\* that reads it, and the marker of the field that follows it
DescriptionField(v) == IF v = "B" THEN "transaction_description" ELSE "description"
NextFieldMarker(v, line) ==
    CASE v = "A" -> IsDateShaped(line)
      [] v = "B" -> HasAmount(line)
      [] v = "C" -> IsAmountLine(line)

\* C2: for A, B and C each further line of a description is joined to the
\* lines before it by exactly one space, and the line that matches the marker
\* of the next field is not made part of the description.
C2_DescriptionJoinedBySpace ==
    [][(/\ ParseStep
        /\ vendor \in {"A", "B", "C"}
        /\ parser.state = DescriptionField(vendor)
        /\ DescriptionField(vendor) \in DOMAIN parser.buffer)
       => IF NextFieldMarker(vendor, Head(parser.lines))
          THEN parser'.buffer = parser.buffer
          ELSE parser'.buffer[DescriptionField(vendor)] =
                   parser.buffer[DescriptionField(vendor)] \o " " \o Head(parser.lines)]_vars

StartMarkers(text) == Cardinality(Occurrences(text, TABLE_START(vendor)))

\* C3: for every vendor each table text the extractor returns holds one start
\* marker only (it stops at the nearest end marker), and a page holding two
\* tables yields two table texts.
C3_OneTextPerTable ==
    [][NextPage =>
        /\ \A k \in 1..Len(tabletexts') : StartMarkers(tabletexts'[k]) = 1
        /\ Head(pages_left) = TwoTablePage(vendor) => Len(tabletexts') = 2]_vars

\* an optional "-", digits, and optionally a point and digits
IsDigits(s) == Len(s) > 0 /\ \A i \in 1..Len(s) : IsDigit(CharAt(s, i))
IsUnsignedDecimal(s) ==
    \/ IsDigits(s)
    \/ \E i \in 2..(Len(s) - 1) :
          CharAt(s, i) = "." /\ IsDigits(SubSeq(s, 1, i - 1)) /\ IsDigits(From(s, i + 1))
IsDecimalLiteral(s) ==
    IF StartsWith(s, "-") THEN IsUnsignedDecimal(From(s, 2)) ELSE IsUnsignedDecimal(s)

\* C4: every amount of every CSV text that get_csv_text returns is a decimal
\* literal (a row whose amount is none makes the call fail instead).
C4_AmountsAreDecimal ==
    \A k \in 1..Len(csv_texts) :
        csv_texts[k].err = "" =>
            \A i \in 1..Len(Exported(k)) : IsDecimalLiteral(Exported(k)[i][3])

\* s without its commas
RECURSIVE WithoutCommas(_)
WithoutCommas(s) ==
    IF s = "" THEN ""
    ELSE (IF CharAt(s, 1) = "," THEN "" ELSE CharAt(s, 1)) \o WithoutCommas(From(s, 2))

CreditNormalized(raw) ==
    IF EndsWith(raw, CR_SUFFIX)
    THEN "-" \o WithoutCommas(SubSeq(raw, 1, Len(raw) - Len(CR_SUFFIX)))
    ELSE WithoutCommas(raw)

\* C5: for vendor C get_csv_text turns every raw amount that carries the
\* credit suffix into the amount without suffix and commas behind one "-",
\* and every other raw amount into the amount without commas.
C5_CreditSuffix ==
    [][(GetCsvText /\ vendor = "C" /\ "amount" \in Columns(transactions)) =>
        \A i \in 1..Len(transactions.rows) :
            transactions'.rows[i]["amount"] = CreditNormalized(transactions.rows[i]["amount"])]_vars

\* a call of get_csv_text of C has returned a credit and a charge, both normalized
C5_Witness ==
    /\ vendor = "C"
    /\ Len(csv_texts) = 1
    /\ csv_texts[1].err = ""
    /\ \E i \in 1..Len(Exported(1)) : Exported(1)[i][3] = "-1234.56"
    /\ \E i \in 1..Len(Exported(1)) : Exported(1)[i][3] = "9999.50"

\* no page is summary, or the first summary page does not match the date
\* pattern, or the text it captures does not fit the date format
NoStatementDate ==
    \/ PAGE_TYPE_SUMMARY \notin DOMAIN classified_pagetexts
    \/ StatementDateMatches(vendor, classified_pagetexts[PAGE_TYPE_SUMMARY][1]) = {}
    \/ ~strptime(FirstGroup(StatementDateMatches(vendor,
                                classified_pagetexts[PAGE_TYPE_SUMMARY][1])),
                 STATEMENT_DATE_FORMAT(vendor)).ok

\* C6: when the statement date cannot be had, the step that follows the
\* classification ends the constructor in an error and nothing happens after
\* a failed constructor; no table text is extracted, no table parsed and no
\* CSV text returned before the statement date is read.
C6_StatementDateFailureIsFatal ==
    /\ [][/\ (pc = "classified" /\ NoStatementDate) =>
                /\ pc' = "failed"
                /\ error' \in {"KeyError", "IndexError", "ValueError"}
                /\ UNCHANGED <<extraction, transactions, csv_texts>>
          /\ pc /= "failed"]_vars
    /\ [](pc \in {"new", "classified"} =>
            /\ pages_left = <<>>
            /\ tabletexts = <<>>
            /\ transaction_tables = <<>>
            /\ parser = NoParser
            /\ transactions = DataFrame(<<>>)
            /\ csv_texts = <<>>)

\* the constructor has failed on the statement date of a statement that has a
\* transactions page
C6_Witness ==
    /\ pc = "failed"
    /\ NoStatementDate
    /\ PAGE_TYPE_TRANSACTIONS \in DOMAIN classified_pagetexts

\* C7: when some page classified transactions yields no table text, the
\* object is never ready and no CSV text is returned, whatever the other
\* transactions pages yield.
C7_PageWithoutTableAborts ==
    (/\ pc /= "new"
     /\ PAGE_TYPE_TRANSACTIONS \in DOMAIN classified_pagetexts
     /\ \E i \in 1..Len(classified_pagetexts[PAGE_TYPE_TRANSACTIONS]) :
           tabletext_extractor(vendor, classified_pagetexts[PAGE_TYPE_TRANSACTIONS][i]) = <<>>)
    => (pc /= "ready" /\ csv_texts = <<>>)

\* the label of the first rule, in the vendor's order, whose pattern is
\* found in the text
MatchingRules(v, text) ==
    {k \in 1..Len(PAGE_TYPE_REGEXES(v)) : Contains(text, PAGE_TYPE_REGEXES(v)[k][1])}
LabelOf(v, text) ==
    IF MatchingRules(v, text) = {} THEN PAGE_TYPE_OTHER
    ELSE PAGE_TYPE_REGEXES(v)[Min(MatchingRules(v, text))][2]

\* the pages of the given label, in page order
RECURSIVE PagesLabelled(_, _, _)
PagesLabelled(v, texts, label) ==
    IF texts = <<>> THEN <<>>
    ELSE (IF LabelOf(v, Head(texts)) = label THEN <<Head(texts)>> ELSE <<>>)
         \o PagesLabelled(v, Tail(texts), label)

PagesUnder(d, label) == IF label \in DOMAIN d THEN d[label] ELSE <<>>

\* C8: the classification puts every page under the label of the first rule
\* that matches it, under other when none does, and keeps the page order
\* under each label; it has no other labels and it does not fail.
C8_FirstMatchingRule ==
    [][ClassifyPages =>
        /\ pc' = "classified" /\ error' = ""
        /\ DOMAIN classified_pagetexts'
             \subseteq {PAGE_TYPE_SUMMARY, PAGE_TYPE_TRANSACTIONS, PAGE_TYPE_OTHER}
        /\ \A label \in {PAGE_TYPE_SUMMARY, PAGE_TYPE_TRANSACTIONS, PAGE_TYPE_OTHER} :
              PagesUnder(classified_pagetexts', label)
                  = PagesLabelled(vendor, pagetexts, label)]_vars

\* a statement with a page that matches both patterns behind another summary
\* page, and a page that matches none, has been classified
C8_Witness ==
    /\ pc = "classified"
    /\ Len(pagetexts) = 3
    /\ pagetexts[2] = MixedPage(vendor)
    /\ pagetexts[3] = OtherPage
    /\ Len(PagesUnder(classified_pagetexts, PAGE_TYPE_SUMMARY)) = 2
    /\ PagesUnder(classified_pagetexts, PAGE_TYPE_SUMMARY)[2] = MixedPage(vendor)

\* C9: a call of get_csv_text leaves self.transactions and the statement date
\* as they were, and returns what the call before it returned.
C9_GetCsvTextKeepsTheParser ==
    [][GetCsvText =>
        /\ transactions' = transactions
        /\ statement_date' = statement_date
        /\ csv_texts /= <<>> => csv_texts'[Len(csv_texts')] = csv_texts[Len(csv_texts)]]_vars

\* C10: the post-processor applied to rows it has made itself raises no
\* error and leaves the transaction_date and the amount of every row as they
\* are.
C10_PostProcessorIdempotent ==
    (pc = "ready" /\ csv_texts /= <<>> /\ csv_texts[Len(csv_texts)].err = "") =>
        /\ pre_process_transactions(vendor, transactions, statement_date).err = ""
        /\ \A i \in 1..Len(transactions.rows) :
              /\ pre_process_transactions(vendor, transactions, statement_date)
                     .df.rows[i]["transaction_date"] = transactions.rows[i]["transaction_date"]
              /\ pre_process_transactions(vendor, transactions, statement_date)
                     .df.rows[i]["amount"] = transactions.rows[i]["amount"]

\* texts with the page put in front of its i-th page (at the end: i = Len + 1)
Insert(texts, i, page) ==
    SubSeq(texts, 1, i - 1) \o <<page>> \o SubSeq(texts, i, Len(texts))

\* a page that holds a table and a statement date but none of the vendor's
\* classification patterns
UnmarkedTablePage(v) ==
    Text(Tail(SummaryLines(v, StatementDateText(v, MAR15))) \o SmallTable(v, "T9"))

\* pages that match none of the vendor's classification patterns
OtherPages(v) == {OtherPage, UnmarkedTablePage(v)}

\* the object b is what the constructor of the run leaves: the same error, the
\* same statement date, the same rows
SameObject(b) ==
    b = [err |-> error', statement_date |-> statement_date', transactions |-> transactions']

\* get_csv_text on the object b returns what the first call of the run returns
SameRecords(b) ==
    get_csv_text(vendor, account_name, file_name, b.transactions, b.statement_date)
        = [err |-> csv_texts'[1].err, transactions |-> transactions',
           csv_text |-> csv_texts'[1].csv_text]

\* C11: a page that matches none of the vendor's patterns, put at any position
\* of the page list of a statement (the longer list a statement of at most
\* MaxPages pages), is labelled other and leaves the outcome of the
\* constructor as it is: the same error, statement date and rows, and so the
\* same records of get_csv_text; no page labelled other is handed to the date
\* extractor or the table extractor.
C11_OtherPagesIgnored ==
    /\ [][(/\ pc \notin {"ready", "failed"}
           /\ pc' \in {"ready", "failed"}
           /\ Len(pagetexts) < MaxPages) =>
            \A page \in OtherPages(vendor) : \A i \in 1..(Len(pagetexts) + 1) :
                /\ classification(vendor, page) = PAGE_TYPE_OTHER
                /\ SameObject(BillParser(vendor, Insert(pagetexts, i, page)))]_vars
    /\ [][(GetCsvText /\ csv_texts = <<>>) =>
            SameRecords([err |-> "", statement_date |-> statement_date,
                         transactions |-> transactions])]_vars
    /\ [][(ExtractStatementDate /\ PAGE_TYPE_SUMMARY \in DOMAIN classified_pagetexts) =>
            LabelOf(vendor, classified_pagetexts[PAGE_TYPE_SUMMARY][1]) /= PAGE_TYPE_OTHER]_vars
    /\ [][NextPage => LabelOf(vendor, Head(pages_left)) /= PAGE_TYPE_OTHER]_vars

\* a statement with an other page between its summary page and its
\* transactions page has been exported
C11_Witness ==
    /\ Len(pagetexts) = 3
    /\ pagetexts[2] = OtherPage
    /\ LabelOf(vendor, pagetexts[1]) = PAGE_TYPE_SUMMARY
    /\ LabelOf(vendor, pagetexts[3]) = PAGE_TYPE_TRANSACTIONS
    /\ Len(csv_texts) = 1
    /\ csv_texts[1].err = ""
    /\ Len(Exported(1)) >= 1

\* the statement date of the run with its day replaced
OnDay(day) == [statement_date EXCEPT !.day = day]

\* the summary page of the run with the day of its statement date replaced
SummaryOn(day) == Text(SummaryLines(vendor, StatementDateText(vendor, OnDay(day))))

\* get_csv_text on the rows df under the statement date d returns what the
\* call of the run returns
SameExport(df, d) ==
    get_csv_text(vendor, account_name, file_name, df, d)
        = [err |-> csv_texts'[1].err, transactions |-> transactions',
           csv_text |-> csv_texts'[1].csv_text]

\* the object b has been constructed without error under the statement date
\* of the run with the given day, and exports what the run exports
SameRun(b, day) ==
    b.err = "" /\ b.statement_date = OnDay(day) /\ SameExport(b.transactions, b.statement_date)

\* C12: a run over the same rows under a statement date of the same month
\* and year and another day (the first and the last day of the month, run
\* from the page texts on; every day of the month, run from the summary page
\* and the parsed rows on) reads that date, and its call of get_csv_text
\* returns the same records, or fails alike.
C12_DayOfMonthIrrelevant ==
    [][(GetCsvText /\ csv_texts = <<>>) =>
        /\ \A day \in {1, DaysIn(statement_date.month, statement_date.year)} :
              SameRun(BillParser(vendor, <<SummaryOn(day), pagetexts[2]>>), day)
        /\ \A day \in 1..DaysIn(statement_date.month, statement_date.year) :
              /\ extract_statement_date(vendor, SummaryOn(day))
                     = [err |-> "", date |-> OnDay(day)]
              /\ SameExport(transactions, OnDay(day))]_vars

\* a January statement with a December row and a January row has been
\* exported by a vendor that resolves the year from the statement date
C12_Witness ==
    /\ vendor \in {"B", "C", "D"}
    /\ statement_date.month = 1
    /\ Len(csv_texts) = 1
    /\ csv_texts[1].err = ""
    /\ \E i \in 1..Len(Exported(1)) : IsoYear(Exported(1)[i][1]) = statement_date.year - 1
    /\ \E i \in 1..Len(Exported(1)) : IsoYear(Exported(1)[i][1]) = statement_date.year

\* the key under which a vendor's parser keeps the description of a row
RawDescription(v) == IF v \in {"B", "D"} THEN "transaction_description" ELSE "description"

\* the record is the one made of the raw row: its description, its amount
\* normalized, and its date in ISO form under the year the record shows
MadeOf(v, record, raw) ==
    /\ record[2] = Cell(raw, RawDescription(v))
    /\ record[3] = NormalizeAmount(v, raw["amount"])
    /\ record[1] = IsoDate(strptime(
           IF v = "A" THEN raw["transaction_date"]
           ELSE raw["transaction_date"] \o YEAR_JOIN(v) \o SubSeq(record[1], 1, 4),
           ROW_DATE_FORMAT(v)))

IsTag(line) == Len(line) = 2 /\ CharAt(line, 1) = "T" /\ IsDigit(CharAt(line, 2))

\* the descriptions printed on the pages, page by page and line by line
RECURSIVE TagsOf(_)
TagsOf(pages) ==
    IF pages = <<>> THEN <<>>
    ELSE SelectSeq(splitlines(Head(pages)), IsTag) \o TagsOf(Tail(pages))

\* the records carry the descriptions in the given order, one each
InOrder(records, tags) ==
    /\ Len(records) = Len(tags)
    /\ \A i \in 1..Len(tags) : EndsWith(records[i][2], tags[i])

RunningTable == tabletext_extractor(vendor, pagetexts[2])[Len(transaction_tables) + 1]

\* the locals of the parser at its end when the table text has the given lines
ParsedLines(lines) ==
    WhileLines(vendor, SkipHeader(vendor, Locals(vendor, Drop(lines, HeaderLines(vendor)))))

\* the same for the table text without its last j lines
WithoutLast(lines, j) == ParsedLines(SubSeq(lines, 1, Len(lines) - j))

\* the parse has ended between two rows, without error
EndedBetweenRows(p) ==
    p.err = "" /\ p.lines = <<>> /\ p.state = initial_state(vendor) /\ p.buffer = EmptyDict

\* the parse has ended without error and with the given rows
EndedWith(p, rows) == p.err = "" /\ p.transactions = rows

\* the rows are what the parser returns for the table text cut back line by
\* line to a text that ends between two rows
RowsCompletedBefore(rows, lines) ==
    \E k \in 1..Len(lines) :
        /\ EndedBetweenRows(WithoutLast(lines, k))
        /\ \A j \in 0..k : EndedWith(WithoutLast(lines, j), rows)

\* a row is partly filled
PartRow(p) == p.state /= initial_state(vendor) \/ p.buffer /= EmptyDict

\* C15: when the lines run out while a row is partly filled, the parser
\* returns without error, and what it returns are the rows completed before:
\* nothing of the buffer, and the rows it returns for the table text without
\* the lines of the unfinished row.
C15_TruncatedTable ==
    [][(ParseReturn /\ PartRow(parser)) =>
        /\ pc' = "tables"
        /\ error' = ""
        /\ transaction_tables' = Append(transaction_tables, parser.transactions)
        /\ parser.transactions /= <<>> =>
              RowsCompletedBefore(parser.transactions, splitlines(RunningTable))]_vars

\* a table of two rows that breaks off in the description of a third row has
\* been parsed
C15_Witness ==
    /\ pc = "tables"
    /\ transaction_tables /= <<>>
    /\ parser.state \in {"description", "transaction_description"}
    /\ RawDescription(vendor) \in DOMAIN parser.buffer
    /\ Len(transaction_tables[1]) = 2

\* the state that reads the last field of a row
LastFieldState(v) == IF v = "A" THEN "transaction_date" ELSE "amount"

\* the table text holds the header and the rows of the given kinds, each
\* complete, and nothing else
CompleteRows(lines, extra, kinds) ==
    lines = TableHeader(vendor, extra) \o TableBody(vendor, extra, kinds)

\* one row for each of the kinds, each with the description of its own kind
RowPerKind(rows, kinds) ==
    /\ Len(rows) = Len(kinds)
    /\ \A i \in 1..Len(kinds) :
          CASE kinds[i] = "long" -> rows[i][RawDescription(vendor)] \in
                                        {"AMAZON MARKETPLACE", "AMAZONMARKETPLACE"}
            [] kinds[i] = "tight" -> rows[i][RawDescription(vendor)] = "COFFEE"
            [] kinds[i] = "bare" -> IF vendor = "D"
                                    THEN rows[i][RawDescription(vendor)] = ""
                                    ELSE RawDescription(vendor) \notin DOMAIN rows[i]

\* the table of the run holds complete rows only: then the rows are theirs
RowsOfCompleteTable(rows, lines) ==
    \A extra \in BOOLEAN : \A kinds \in TableKindSeqs :
        CompleteRows(lines, extra, kinds) => RowPerKind(rows, kinds)

\* C16: the step that reads the last field of a row leaves the token in front
\* of the lines, also when the field was the last line of the table; the step
\* that follows appends one row, the buffer as it is, empties the buffer and
\* goes back to the initial field; no other step appends a row.  A table of k
\* complete rows makes k rows, each with the fields of its own lines only.
C16_RowCompletion ==
    /\ [][(ParseStep /\ parser'.err = "") =>
            /\ parser.state = LastFieldState(vendor) =>
                  /\ parser'.state = END_OF_ROW
                  /\ parser'.lines = <<END_OF_ROW_TOKEN>> \o Tail(parser.lines)
            /\ parser'.state = END_OF_ROW => parser.state = LastFieldState(vendor)
            /\ IF parser.state = END_OF_ROW
               THEN /\ parser'.transactions = Append(parser.transactions, parser.buffer)
                    /\ parser'.buffer = EmptyDict
                    /\ parser'.state = initial_state(vendor)
                    /\ parser'.lines = Tail(parser.lines)
               ELSE parser'.transactions = parser.transactions]_vars
    /\ [][ParseReturn =>
            /\ parser.state /= END_OF_ROW
            /\ RowsOfCompleteTable(parser.transactions, splitlines(RunningTable))]_vars

\* a table of a row with a description and a row without one, the last line
\* of the table its last field, has been parsed into two rows
C16_Witness ==
    /\ pc = "tables"
    /\ vendor \in {"A", "B", "C"}
    /\ transaction_tables /= <<>>
    /\ parser.state = initial_state(vendor)
    /\ parser.buffer = EmptyDict
    /\ Len(transaction_tables[1]) = 2
    /\ RawDescription(vendor) \in DOMAIN transaction_tables[1][1]
    /\ RawDescription(vendor) \notin DOMAIN transaction_tables[1][2]

\* the fields of a row in the order of the vendor's parser, the end of the
\* row behind them (D reads a category in a table of charges and credits)
FieldOrder(v, mode) ==
    CASE v = "A" -> <<"reward_earned", "amount", "category", "description",
                      "posted_date", "transaction_date", END_OF_ROW>>
      [] v = "B" -> <<"transaction_date", "posting_date", "transaction_description",
                      "amount", END_OF_ROW>>
      [] v = "C" -> <<"transaction_date", "posting_date", "description",
                      "amount", END_OF_ROW>>
      [] v = "D" -> IF mode = "payments"
                    THEN <<"transaction_date", "posting_date", "transaction_description",
                           "amount", END_OF_ROW>>
                    ELSE <<"transaction_date", "posting_date", "transaction_description",
                           "category", "amount", END_OF_ROW>>

\* the state behind st in the order, the first behind the last
Successor(order, st) ==
    order[((CHOOSE i \in 1..Len(order) : order[i] = st) % Len(order)) + 1]

IsDescriptionState(st) == st \in {"description", "transaction_description"}

\* the step from p to q goes on in the order, or stays in the description
InFieldOrder(p, q) ==
    \/ q.state = Successor(FieldOrder(vendor, p.mode), p.state)
    \/ q.state = p.state /\ IsDescriptionState(p.state)

\* the step from p to q has taken the first line away (what it may have put
\* in its place, the rest of the line or the token, is not that line)
ConsumesOneLine(p, q) ==
    \/ q.lines = Tail(p.lines)
    \/ /\ Len(q.lines) = Len(p.lines)
       /\ Tail(q.lines) = Tail(p.lines)
       /\ Head(q.lines) /= Head(p.lines)

\* C17: every step of the row parser goes from a field to the next field of
\* the vendor's order, from the end of the row to the initial field, or from
\* the description state to itself, and every step in a state other than the
\* description state consumes one line.
C17_TransitionOrder ==
    [][(ParseStep /\ parser'.err = "") =>
        /\ InFieldOrder(parser, parser')
        /\ ~IsDescriptionState(parser.state) => ConsumesOneLine(parser, parser')]_vars

\* C17, amended: as above, but the category state of A consumes its line only
\* when the line is the dash; any other line it leaves for the description
\* state and stores the empty category.
C17_TransitionOrderAmended ==
    [][(ParseStep /\ parser'.err = "") =>
        /\ InFieldOrder(parser, parser')
        /\ ~IsDescriptionState(parser.state) =>
              IF vendor = "A" /\ parser.state = "category" /\ Head(parser.lines) /= EnDash
              THEN parser'.lines = parser.lines /\ parser'.buffer["category"] = ""
              ELSE ConsumesOneLine(parser, parser')]_vars

\* the category state of A has left the line of a description where it was
C17_Witness ==
    /\ pc = "parse"
    /\ vendor = "A"
    /\ parser.state = "description"
    /\ "description" \notin DOMAIN parser.buffer
    /\ parser.buffer["category"] = ""
    /\ parser.lines /= <<>>
    /\ Head(parser.lines) = "COFFEE"

\* the rows the parser has completed so far in the running call
RawRows == parser.transactions

\* C18: every row the parser of any vendor makes holds a transaction date, a
\* description and an amount, also when the first line the description state
\* sees is already the line of the next field.
C18_RequiredFields ==
    \A i \in 1..Len(RawRows) :
        {"transaction_date", RawDescription(vendor), "amount"} \subseteq DOMAIN RawRows[i]

\* the lines of the table text the next call of the parser is given
NextTableLines == splitlines(Head(tabletexts))

\* the parser p is at its end at once, with no row and no error
EndsAtOnce(p) == p.err = "" /\ p.lines = <<>> /\ p.transactions = <<>>

\* C19: when the table text has no more lines than the vendor's header, the
\* parser is at its end at once, with no row and no error.
C19_EmptyRemainder ==
    [][(NextTable /\ Len(NextTableLines) <= HeaderLines(vendor)) =>
        (pc' = "parse" /\ error' = "" /\ EndsAtOnce(parser'))]_vars

\* the lines the header skipping is said to discard: first, and on the
\* signature of the extra header
ClaimedHeader(v) == CASE v = "A" -> 9 [] v = "B" -> 6 [] v = "C" -> 6 [] v = "D" -> 5
ClaimedExtraHeader(v) == CASE v = "A" -> 17 [] v = "B" -> 1 [] v = "C" -> 1 [] v = "D" -> 3

\* the loop starts in the initial field, on the given lines
StartsOn(p, lines) ==
    /\ p.err = ""
    /\ p.lines = lines
    /\ p.state = initial_state(vendor)
    /\ p.buffer = EmptyDict
    /\ p.transactions = <<>>

\* the parser p starts on the lines of the table text without the fixed
\* header, and without the extra header when the first line left matches its
\* signature, without the given number of lines when it does not
HeaderSkipped(p, lines, unmatched) ==
    StartsOn(p, IF ExtraHeader(vendor, lines[ClaimedHeader(vendor) + 1])
                THEN Drop(lines, ClaimedHeader(vendor) + ClaimedExtraHeader(vendor))
                ELSE Drop(lines, ClaimedHeader(vendor) + unmatched))

\* what is said of a table text of the given lines that is longer than the
\* fixed header
HeaderRule(p, lines) ==
    Len(lines) > ClaimedHeader(vendor) => HeaderSkipped(p, lines, 0)

\* the same with the line D discards when the signature does not match, and
\* with the mode of D
AmendedHeaderRule(p, lines) ==
    Len(lines) > ClaimedHeader(vendor) =>
        /\ HeaderSkipped(p, lines, IF vendor = "D" THEN 1 ELSE 0)
        /\ p.mode = "charges_and_credits"
              <=> (vendor = "D" /\ lines[ClaimedHeader(vendor) + 1] = "Spend Categories")

\* C20: the parser discards the vendor's fixed number of lines, and the lines
\* of the extra header when the first line left matches its signature; when
\* it does not, the loop starts on that first line.
C20_HeaderSkipping ==
    [][NextTable => HeaderRule(parser', NextTableLines)]_vars

\* C20, amended: as above, but D discards one more line when the first line
\* left does not match the signature (the seventh line of the table text is
\* then the first line the loop reads), and is in the mode of charges and
\* credits when it matches.
C20_HeaderSkippingAmended ==
    [][NextTable => AmendedHeaderRule(parser', NextTableLines)]_vars

\* the parser of D has started on the date of the first row of a table that
\* has no extra header
C20_Witness ==
    /\ pc = "parse"
    /\ vendor = "D"
    /\ parser.mode = "payments"
    /\ StartsOn(parser, parser.lines)
    /\ Len(parser.lines) >= 4
    /\ parser.lines[1] = "Dec 28"

\* the buffer q holds what the buffer p holds, and the category
SetsCategory(p, q, value) ==
    /\ DOMAIN q.buffer = DOMAIN p.buffer \cup {"category"}
    /\ q.buffer["category"] = value
    /\ \A k \in DOMAIN p.buffer \ {"category"} : q.buffer[k] = p.buffer[k]

\* the description state, entered on the lines given, examines their first
\* line: it goes on to posted_date when the line has the shape of a date, and
\* makes the line the start of the description when it has not
ExaminedByDescription(q, lines) ==
    /\ q.state = "description"
    /\ "description" \notin DOMAIN q.buffer
    /\ IF IsDateShaped(Head(lines))
       THEN StepA(q).state = "posted_date" /\ StepA(q).lines = lines
       ELSE StepA(q).buffer["description"] = Head(lines) /\ StepA(q).lines = Tail(lines)

\* C21: in the category state of A, a next line that is exactly the dash is
\* consumed and stored as the category; any other line is left where it is,
\* the category is stored as the empty string, and that line is the first
\* line the description state examines.  Either way the state is description
\* afterwards, and nothing else of the row or of the rows before it changes.
C21_OptionalCategory ==
    [][(ParseStep /\ vendor = "A" /\ parser.state = "category") =>
        /\ parser'.err = ""
        /\ parser'.state = "description"
        /\ parser'.transactions = parser.transactions
        /\ IF Head(parser.lines) = EnDash
           THEN /\ parser'.lines = Tail(parser.lines)
                /\ SetsCategory(parser, parser', EnDash)
           ELSE /\ parser'.lines = parser.lines
                /\ SetsCategory(parser, parser', "")
                /\ ExaminedByDescription(parser', parser.lines)]_vars

\* a table of A has given a row whose category is the dash and a row whose
\* category is empty and whose description is the line left in place
C21_Witness ==
    /\ vendor = "A"
    /\ Len(transaction_tables) = 1
    /\ \E i, j \in 1..Len(transaction_tables[1]) :
          /\ transaction_tables[1][i]["category"] = EnDash
          /\ transaction_tables[1][j]["category"] = ""
          /\ "description" \in DOMAIN transaction_tables[1][j]
          /\ transaction_tables[1][j]["description"] = "COFFEE"

\* the place of the state in the vendor's order of fields
Place(p) == CHOOSE i \in 1..Len(FieldOrder(vendor, p.mode)) :
                FieldOrder(vendor, p.mode)[i] = p.state

\* what is left to do: every line still in the sequence counts for more than
\* all the states of a row, every state of the row still ahead counts for one
Measure(p) ==
    Len(p.lines) * (Len(FieldOrder(vendor, p.mode)) + 1)
        + (Len(FieldOrder(vendor, p.mode)) - Place(p))

\* the loop is running / the call has returned or raised
InLoop == pc = "parse"
LoopLeft == pc \in {"tables", "failed"}

\* C22: the loop of the row parser terminates for every vendor: every
\* iteration makes the measure of what is left smaller (a transition that
\* consumes no line, or pushes a line or the token back, moves on in the
\* order of the fields; so no iteration leaves the locals as they were), the
\* measure is never negative, and a running loop always comes to return or
\* raise.
C22_Termination ==
    /\ [][ParseStep => Measure(parser') < Measure(parser)]_vars
    /\ [](InLoop => Measure(parser) >= 0)
    /\ InLoop ~> LoopLeft

\* the loop of B has returned behind a row whose posting-date line was pushed
\* back in part and a row whose description state met the amount at once
C22_Witness ==
    /\ vendor = "B"
    /\ pc = "tables"
    /\ parser.lines = <<>>
    /\ Len(transaction_tables) = 1
    /\ \E i, j \in 1..Len(transaction_tables[1]) :
          /\ "transaction_description" \in DOMAIN transaction_tables[1][i]
          /\ transaction_tables[1][i]["transaction_description"] = "COFFEE"
          /\ transaction_tables[1][i]["posting_date"] = "Jan 02"
          /\ "transaction_description" \notin DOMAIN transaction_tables[1][j]

\* the mode the header of a table text of D sets: by its sixth line
ModeOf(lines) ==
    IF lines[6] = "Spend Categories" THEN "charges_and_credits" ELSE "payments"

\* the row of a table of payments: no category, the amount a raw line of the
\* table text behind a minus sign
PaymentRow(row, lines) ==
    /\ "category" \notin DOMAIN row
    /\ Len(row["amount"]) >= 1
    /\ Head(row["amount"]) = "-"
    /\ \E k \in 1..Len(lines) : From(row["amount"], 2) = lines[k]

\* the row of a table of charges and credits: the amount a raw line of the
\* table text as it is, the category the raw line before that line
ChargeRow(row, lines) ==
    /\ "category" \in DOMAIN row
    /\ \E k \in 2..Len(lines) : row["amount"] = lines[k] /\ row["category"] = lines[k - 1]

\* every row of the table p has parsed is a row of the mode of the table text
RowsInMode(p, lines) ==
    /\ p.mode = ModeOf(lines)
    /\ \A i \in 1..Len(p.transactions) :
          IF ModeOf(lines) = "payments"
          THEN PaymentRow(p.transactions[i], lines)
          ELSE ChargeRow(p.transactions[i], lines)

\* one iteration of D keeps the mode; the amount state stores the line with a
\* minus sign in a table of payments and as it is otherwise; only a table of
\* charges and credits comes to the category state, behind the description,
\* and stores the line there, with the amount state next
StepInMode(p, q) ==
    /\ q.mode = p.mode
    /\ p.state = "amount" =>
          q.buffer["amount"] = (IF p.mode = "payments" THEN "-" ELSE "") \o Head(p.lines)
    /\ q.state = "category" =>
          p.mode = "charges_and_credits" /\ p.state = "transaction_description"
    /\ p.state = "category" =>
          q.buffer["category"] = Head(p.lines) /\ q.state = "amount"
    /\ p.state = "transaction_description" /\ p.mode = "payments" =>
          q.state = "amount" /\ "category" \notin DOMAIN q.buffer

\* C23: the sign convention of D is fixed per table by its header.  A table
\* whose sixth line is not "Spend Categories" is parsed in the mode of
\* payments: every row has "-" and the raw amount line as its amount and no
\* category.  A table whose sixth line is "Spend Categories" is parsed in the
\* mode of charges and credits: every row has the raw amount line as its
\* amount and the line before it as its category.  No iteration changes the
\* mode.
C23_SignConventionD ==
    /\ [][(NextTable /\ vendor = "D" /\ parser'.err = "") =>
            parser'.mode = ModeOf(NextTableLines)]_vars
    /\ [][(ParseStep /\ vendor = "D") => StepInMode(parser, parser')]_vars
    /\ [][(ParseReturn /\ vendor = "D") =>
            RowsInMode(parser, splitlines(RunningTable))]_vars

\* a table of payments of D has given two rows, the amounts 1,234.56 and 2.00
\* of its lines with a minus sign
C23_Witness ==
    /\ vendor = "D"
    /\ pc = "tables"
    /\ parser.mode = "payments"
    /\ Len(transaction_tables) = 1
    /\ Len(transaction_tables[1]) = 2
    /\ transaction_tables[1][1]["amount"] = "-1,234.56"
    /\ transaction_tables[1][2]["amount"] = "-2.00"
    /\ "category" \notin DOMAIN transaction_tables[1][1]

\* how many of the lines read like the token
RECURSIVE TokensIn(_)
TokensIn(lines) ==
    IF lines = <<>> THEN 0
    ELSE (IF Head(lines) = END_OF_ROW_TOKEN THEN 1 ELSE 0) + TokensIn(Tail(lines))

\* how many fields of the row hold the text of the token
TokenValues(row) == Cardinality({k \in DOMAIN row : row[k] = END_OF_ROW_TOKEN})

RECURSIVE TokenValuesIn(_)
TokenValuesIn(rows) ==
    IF rows = <<>> THEN 0 ELSE TokenValues(Head(rows)) + TokenValuesIn(Tail(rows))

\* the lines of the source still in the sequence: all but the token the last
\* field has put at its head
SourceLines(p) == IF p.state = END_OF_ROW THEN Tail(p.lines) ELSE p.lines

\* the lines of the source that read like the token: those stored in a field
\* so far and those still in the sequence
SourceTokens(p) ==
    TokenValuesIn(p.transactions) + TokenValues(p.buffer) + TokensIn(SourceLines(p))

\* the step from p to q, as far as the token goes:
\*   the state is end_of_row behind the last field only, whose transition has
\*   put the token where its own line was;
\*   the end of the row finds the token at the head and removes it and nothing
\*   else;
\*   a line of the source that reads like the token is neither dropped nor
\*   made (the token put in is never stored, the token removed is never a
\*   line of the source), and one token at most has been put into the lines
SentinelStep(p, q) ==
    /\ q.state = END_OF_ROW <=> (q.err = "" /\ p.state = LastFieldState(vendor))
    /\ q.state = END_OF_ROW => q.lines = <<END_OF_ROW_TOKEN>> \o Tail(p.lines)
    /\ p.state = END_OF_ROW =>
          /\ Head(p.lines) = END_OF_ROW_TOKEN
          /\ q.lines = Tail(p.lines)
          /\ q.transactions = Append(p.transactions, p.buffer)
    /\ q.err = "" => SourceTokens(q) = SourceTokens(p)
    /\ TokensIn(q.lines) - TokensIn(SourceLines(q)) = (IF q.state = END_OF_ROW THEN 1 ELSE 0)

\* C24: in the row parser of every vendor the state is end_of_row only with
\* the token at the head of the lines, put there by the transition before; the
\* end of the row removes that token and no line of the source; one token at
\* most is in the lines at a time (in a table none of whose lines reads like
\* the token, one line at most reads like it); the token put in is never
\* stored as the value of a field.
C24_SentinelDiscipline ==
    /\ [][ParseStep => SentinelStep(parser, parser')]_vars
    /\ [][(NextTable /\ parser'.err = "") =>
            (parser'.state /= END_OF_ROW /\ parser'.buffer = EmptyDict)]_vars
    /\ [][(ParseStep /\ SourceTokens(parser) = 0) =>
            /\ TokensIn(parser'.lines) <= 1
            /\ TokenValuesIn(parser'.transactions) + TokenValues(parser'.buffer) = 0]_vars

\* the end of a row is reached with the token at the head of the lines, while
\* the row holds a description that reads like the token and a line of the
\* source that reads like it is still to come
C24_Witness ==
    /\ pc = "parse"
    /\ parser.state = END_OF_ROW
    /\ Head(parser.lines) = END_OF_ROW_TOKEN
    /\ TokenValues(parser.buffer) = 1
    /\ TokensIn(parser.lines) = 2

=============================================================================
